---------------------------- MODULE Spec2Model ----------------------------
(***************************************************************************)
(* A model of the wafer WebAssembly decoder: the byte streams              *)
(* (src/storage), the LEB128 reader (src/parse/leb128.rs), the module      *)
(* decoder's section loop (src/decode/mod.rs) and the decoding of a        *)
(* function body (src/decode/decodable_impls.rs, src/decode/expr.rs).      *)
(*                                                                         *)
(* Three specifications share the variables: SpecLeb (leb128::read),       *)
(* Spec (decode_module) and SpecFunc (Function::decode). Each leaves the   *)
(* variables of the others at their idle values.                           *)
(*                                                                         *)
(* Machine words are modelled as the set of the positions of their 1 bits  *)
(* (bit 0 the least significant), so that 32- and 64-bit values keep their *)
(* width: `|` is set union, `<<` moves the positions up and drops the ones *)
(* that leave the word.                                                    *)
(***************************************************************************)
EXTENDS Integers, Sequences, FiniteSets, TLC

VARIABLES
    \* ---- leb128::read applied to a byte source (SpecLeb)
    lebT,          \* the target type T
    lebSrc,        \* the bytes the byte source holds
    lebOut,        \* the value returned, "none" before the call
    \* ---- the stream decode_module reads (Spec)
    kind,          \* the Stream provider: "buffer" (Buffer) or "reader" (io::Read + io::Seek)
    size,          \* the number of bytes the input holds
    pos,           \* the stream's offset()
    \* ---- decode_module
    pc,            \* the position in decode_module
    context,       \* the ContextStack: frames [id, offset], outermost first
    result,        \* what decode_module returned, [tag |-> "none"] while it runs
    last_id,       \* the last non-custom section ID seen, NoId for None
    id,            \* the section ID of the section being read
    len,           \* its declared length
    offset_start,  \* the offset at which its body starts
    name,          \* custom section: the Name decoded
    vec_len,       \* vector section: the elements still to decode
    vec,           \* vector section: the elements decoded so far
    module,        \* the section slots of the Module under construction
    \* ---- Function::decode (SpecFunc), which also uses the stream, pc,
    \* context, result, len (expected_size), offset_start, vec_len (the groups
    \* of locals still to read) and vec (locals.len())
    depth,         \* transcode_expression: the blocks open
    \* ---- the CustomSectionVisitor
    visitor,       \* the calls made on the visitor, in order
    \* ---- history of the input, kept for the properties only
    sections,      \* one record per section header read, in source order
    truncated,     \* where the input ended under a read, "none" if it did not
    id_read,       \* the outcome of the last section-ID read
    overread,      \* the bytes read for a section beyond its declared end
    \* ---- Decoder::with_context on its own (SpecCtx), which also uses the
    \* stream, pc, context and result
    nest,          \* the ContextIds of the reads to nest, outermost first
    \* ---- history of Locals::decode (SpecFunc), kept for the properties only
    groups,        \* the groups of locals decoded, [count, ty], in order
    \* ---- validate_module (SpecVal, SpecMem), which also uses pc, module (the
    \* Module) and result; kept for the properties only:
    decoded,       \* the Module as decoded, before prepare_module_for_validation
    \* ---- ExpressionBuilder (SpecExpr), which also uses pc and result
    data,          \* ExpressionBuilder::data, the bytes written so far
    slots          \* the writes made, [from, at, size, align], kept for the properties only

lebVars == <<lebT, lebSrc, lebOut>>

streamVars == <<kind, size, pos>>

decodeVars ==
    <<pc, context, result, last_id, id, len, offset_start, name, vec_len, vec, module, depth>>

historyVars == <<visitor, sections, truncated, id_read, overread>>

exprVars == <<data, slots>>

unitVars == <<nest, groups, decoded, data, slots>>

vars == <<lebT, lebSrc, lebOut, kind, size, pos, pc, context, result, last_id, id, len,
          offset_start, name, vec_len, vec, module, depth, visitor, sections, truncated,
          id_read, overread, nest, groups, decoded, data, slots>>

-----------------------------------------------------------------------------
(* Bytes and words *)

RECURSIVE Pow2(_)
Pow2(n) == IF n <= 0 THEN 1 ELSE 2 * Pow2(n - 1)

\* The set of 1 bits of the byte b (0..255).
ByteBits(b) == {i \in 0..7 : (b \div Pow2(i)) % 2 = 1}

\* The number a set of bit positions denotes (used for small values only).
RECURSIVE BitsToNat(_)
BitsToNat(S) ==
    IF S = {} THEN 0
    ELSE LET m == CHOOSE x \in S : TRUE IN Pow2(m) + BitsToNat(S \ {m})

\* w << s in a word of `width` bits.
Shl(w, s, width) == {i + s : i \in w} \cap (0..(width - 1))

-----------------------------------------------------------------------------
(* src/parse/leb128.rs *)

LebTypes == {"u32", "i32", "i64"}

MAX_BITS(T) == IF T = "i64" THEN 64 ELSE 32

IS_SIGNED(T) == T # "u32"

CONTENT_MASK == {0, 1, 2, 3, 4, 5, 6}

LAST_CHUNK_MASK == {7}

SIGN_EXTEND_MASK == {6}

\* A length cap that takes every T to be 64 bits wide.
LengthCapReached_AlwaysI64(T, shift) == shift >= 64

\* `if shift >= T::MAX_BITS { return Err(E::invalid_leb128()); }`
LengthCapReached(T, shift) == shift >= MAX_BITS(T)

\* An unused-bit check that accepts every last byte.
LastByteValid_Always(T, shift, byte) == TRUE

\* The unused-bit check on the byte read when fewer than 7 bits remain.
LastByteValid(T, shift, byte) ==
    LET content == ByteBits(byte) \cap CONTENT_MASK
        remaining_bits == MAX_BITS(T) - shift
    IN  IF MAX_BITS(T) - shift < 7
        THEN IF IS_SIGNED(T)
             THEN LET mask == Shl(0..7, remaining_bits - 1, 8) \cap CONTENT_MASK
                      masked == content \cap mask
                  IN  masked = {} \/ masked = mask
             ELSE (byte % 128) < Pow2(remaining_bits)
        ELSE TRUE

\* A sign extension that tests the continuation bit instead of bit 6.
SignExtend_WrongMask(T, acc, shift, byte) ==
    IF IS_SIGNED(T) /\ shift < MAX_BITS(T) /\ (ByteBits(byte) \cap LAST_CHUNK_MASK) # {}
    THEN acc \cup Shl(0..(MAX_BITS(T) - 1), shift, MAX_BITS(T))
    ELSE acc

\* `if T::IS_SIGNED && shift < T::MAX_BITS && (byte & SIGN_EXTEND_MASK) != 0`
SignExtend(T, acc, shift, byte) ==
    IF IS_SIGNED(T) /\ shift < MAX_BITS(T) /\ (ByteBits(byte) \cap SIGN_EXTEND_MASK) # {}
    THEN acc \cup Shl(0..(MAX_BITS(T) - 1), shift, MAX_BITS(T))
    ELSE acc

\* The loop of read(): src is what the byte source can deliver, idx the number
\* of bytes delivered so far, acc the `result` accumulated. `requested` counts
\* the calls of read_byte.
RECURSIVE leb128_loop(_, _, _, _, _)
leb128_loop(T, src, idx, acc, shift) ==
    IF LengthCapReached(T, shift)
    THEN [tag |-> "InvalidLeb128", requested |-> idx]
    ELSE IF idx >= Len(src)
    THEN [tag |-> "SourceError", requested |-> idx + 1]
    ELSE
      LET byte == src[idx + 1]
          content == ByteBits(byte) \cap CONTENT_MASK
      IN  IF ~LastByteValid(T, shift, byte)
          THEN [tag |-> "InvalidLeb128", requested |-> idx + 1]
          ELSE
            LET result2 == acc \cup Shl(content, shift, MAX_BITS(T))
                shift2 == shift + 7
            IN  IF (ByteBits(byte) \cap LAST_CHUNK_MASK) = {}
                THEN [tag |-> "Ok",
                      value |-> SignExtend(T, result2, shift2, byte),
                      requested |-> idx + 1]
                ELSE leb128_loop(T, src, idx + 1, result2, shift2)

leb128_read(T, src) == leb128_loop(T, src, 0, {}, 0)

-----------------------------------------------------------------------------
(* src/types/mod.rs: SectionId *)

Custom == 0
Type == 1
Import == 2
Function == 3
Table == 4
Memory == 5
Global == 6
Export == 7
Start == 8
Element == 9
Code == 10
Data == 11
DataCount == 12

\* The byte tags TryFromPrimitive accepts.
SectionIds == {Custom, Type, Import, Function, Table, Memory, Global, Export,
               Start, Element, Code, Data, DataCount}

\* impl PartialOrd for SectionId: partial_cmp, with Some(_) written as the
\* ordering's name. (u8's partial_cmp never returns None.)
partial_cmp(a, b) ==
    IF a = DataCount /\ b \in {Code, Data} THEN "Less"
    ELSE IF a \in {Code, Data} /\ b = DataCount THEN "Greater"
    ELSE IF a < b THEN "Less"
    ELSE IF a = b THEN "Equal"
    ELSE "Greater"

\* `a <= b` as PartialOrd::le derives it from partial_cmp.
SectionId_le(a, b) == partial_cmp(a, b) \in {"Less", "Equal"}

-----------------------------------------------------------------------------
(* src/storage: the two Stream providers                                   *)
(* A stream is its offset p and the input's length n; the bytes themselves *)
(* are drawn when they are read. Every operation returns                   *)
(* [ok, pos, err]: whether it succeeded, the offset it leaves, its error.  *)

StreamKinds == {"buffer", "reader"}

StreamOk(p) == [ok |-> TRUE, pos |-> p, err |-> "none"]

StreamErr(p, e) == [ok |-> FALSE, pos |-> p, err |-> e]

\* impl Stream for Buffer
Buffer_is_eof(e) == TRUE

Buffer_read_byte(p, n) ==
    IF p < n THEN StreamOk(p + 1) ELSE StreamErr(p, "MemoryEof")

Buffer_read_exact(p, n, count) ==
    IF count <= n - p THEN StreamOk(p + count) ELSE StreamErr(p, "MemoryEof")

\* A skip that moves the cursor without looking at the length.
Buffer_skip_bytes_Unchecked(p, n, count) == StreamOk(p + count)

Buffer_skip_bytes(p, n, count) ==
    IF count <= n - p THEN StreamOk(p + count) ELSE StreamErr(p, "MemoryEof")

\* impl Stream for R: io::Read + io::Seek. `io` is whether the operating
\* system fails the call (an io::Error of a kind other than UnexpectedEof).
\* io::Read::read_exact reads up to the end of the input and then fails with
\* UnexpectedEof; io::Seek::seek_relative moves the position, past the end of
\* the input too, without looking at the input.
Reader_is_eof(e) == e = "UnexpectedEof"

Reader_read_exact(p, n, count, io) ==
    IF io THEN StreamErr(p, "Other")
    ELSE IF count = 0 \/ p + count <= n THEN StreamOk(p + count)
    ELSE StreamErr(IF p > n THEN p ELSE n, "UnexpectedEof")

Reader_read_byte(p, n, io) == Reader_read_exact(p, n, 1, io)

Reader_skip_bytes(p, n, count, io) ==
    IF io THEN StreamErr(p, "Other") ELSE StreamOk(p + count)

\* A provider for which no error is the end of the input.
is_eof_Never(kd, e) == FALSE

\* The provider's operations, by provider.
is_eof(kd, e) == IF kd = "buffer" THEN Buffer_is_eof(e) ELSE Reader_is_eof(e)

Stream_read_byte(kd, p, n, io) ==
    IF kd = "buffer" THEN Buffer_read_byte(p, n) ELSE Reader_read_byte(p, n, io)

Stream_read_exact(kd, p, n, count, io) ==
    IF kd = "buffer" THEN Buffer_read_exact(p, n, count)
    ELSE Reader_read_exact(p, n, count, io)

Stream_skip_bytes(kd, p, n, count, io) ==
    IF kd = "buffer" THEN Buffer_skip_bytes(p, n, count)
    ELSE Reader_skip_bytes(p, n, count, io)

\* Only a reader can fail with an I/O error.
IoChoices(kd) == IF kd = "reader" THEN BOOLEAN ELSE {FALSE}

\* The bytes of input left at offset p.
Avail(p, n) == IF n > p THEN n - p ELSE 0

-----------------------------------------------------------------------------
(* src/decode/mod.rs: ContextStack and the Decoder's reads                 *)
(* A read returns the set of its possible outcomes, one for each input the *)
(* stream may hold at the offset: [tag, value, bytes, err, pos, short,     *)
(* ctx], where tag is "Ok" or the Error variant, value / bytes / err are   *)
(* the value decoded or the variant's payload, pos is the offset the read  *)
(* leaves, ctx the context stack it leaves, and short records that the     *)
(* input ended under the read (kept for the properties only).              *)

MAX_DEPTH == 6

Out(tag, value, bytes, err, p, short, ctx) ==
    [tag |-> tag, value |-> value, bytes |-> bytes, err |-> err, pos |-> p,
     short |-> short, ctx |-> ctx]

\* A push that never refuses.
ContextStack_push_Unbounded(ctx, cid, offset) ==
    [ok |-> TRUE, stack |-> Append(ctx, [id |-> cid, offset |-> offset])]

\* A push that refuses the sixth frame.
ContextStack_push_Five(ctx, cid, offset) ==
    IF Len(ctx) >= 5
    THEN [ok |-> FALSE, stack |-> ctx]
    ELSE [ok |-> TRUE, stack |-> Append(ctx, [id |-> cid, offset |-> offset])]

\* ContextStack::push, the stack as a sequence of frames.
ContextStack_push(ctx, cid, offset) ==
    IF Len(ctx) >= MAX_DEPTH
    THEN [ok |-> FALSE, stack |-> ctx]
    ELSE [ok |-> TRUE, stack |-> Append(ctx, [id |-> cid, offset |-> offset])]

\* ContextStack::pop
ContextStack_pop(ctx) == SubSeq(ctx, 1, Len(ctx) - 1)

\* A with_context that pops its frame on failure too.
with_context_AlwaysPop(ctx, cid, p, inner) ==
    IF ~ContextStack_push(ctx, cid, p).ok
    THEN {Out("ExcessiveParsingDepth", p, <<>>, cid, p, FALSE, ctx)}
    ELSE {[o EXCEPT !.ctx = ContextStack_pop(o.ctx)] : o \in inner}

\* Decoder::with_context: `inner` is the set of outcomes of f, run at offset
\* p on the stack with the frame pushed. The frame is popped on success only.
with_context(ctx, cid, p, inner) ==
    IF ~ContextStack_push(ctx, cid, p).ok
    THEN {Out("ExcessiveParsingDepth", p, <<>>, cid, p, FALSE, ctx)}
    ELSE {IF o.tag = "Ok" THEN [o EXCEPT !.ctx = ContextStack_pop(o.ctx)] ELSE o : o \in inner}

\* Storage(err) from a failed stream operation r, asked for `count` bytes.
StorageOut(r, p, n, count, io, ctx) ==
    Out("Storage", 0, <<>>, r.err, r.pos, ~io /\ count > Avail(p, n), ctx)

\* The bytes a LEB128 u32 may be made of in the inputs tried: 0x80 (a
\* continuation byte with content 0) and last bytes 0..3.
U32ContByte == 128

U32LastBytes == {0, 1, 2, 3}

RECURSIVE Repeat(_, _)
Repeat(b, k) == IF k = 0 THEN <<>> ELSE Append(Repeat(b, k - 1), b)

\* How many 0x80 bytes pad the u32 encodings tried that end in a last byte.
MaxU32Pad == 1

\* Up to five continuation bytes, after which the input ends or read() gives
\* up; and the encodings proper, of up to MaxU32Pad continuation bytes and a
\* last byte.
U32Sources ==
    {Repeat(U32ContByte, k) : k \in 0..5}
    \cup {Append(Repeat(U32ContByte, k), b) :
            k \in 0..(IF MaxU32Pad < 4 THEN MaxU32Pad ELSE 4), b \in U32LastBytes}

\* The integer a decoded word is: a u32, or an i32 in two's complement.
WordToInt(T, w) ==
    IF T = "i32" /\ 31 \in w THEN (BitsToNat(w \ {31}) - 2147483647) - 1
    ELSE BitsToNat(w)

\* Decoder::read_leb128_raw::<T>: leb128::read(|| self.read_byte_raw()).
\* `sources` are the encodings tried; src is what the stream holds at p,
\* exactly as far as read() asks for it; read()'s source error is the
\* stream's: the end of the input, or an I/O error at that byte.
read_leb128_raw(T, sources, kd, p, n, ctx) ==
    {LET r == leb128_read(T, src)
     IN  IF r.tag = "Ok"
         THEN Out("Ok", WordToInt(T, r.value), <<>>, "none", p + Len(src), FALSE, ctx)
         ELSE IF r.tag = "InvalidLeb128"
         THEN Out("InvalidLeb128", 0, <<>>, "none", p + Len(src), FALSE, ctx)
         ELSE StorageOut(Stream_read_byte(kd, p + Len(src), n, io), p + Len(src), n, 1, io, ctx)
     : <<src, io>> \in
         {si \in sources \X IoChoices(kd) :
            LET r == leb128_read(T, si[1])
            IN  /\ Len(si[1]) <= Avail(p, n)
                /\ r.tag = "SourceError" => (si[2] \/ Len(si[1]) = Avail(p, n))
                /\ r.tag # "SourceError" => (~si[2] /\ r.requested = Len(si[1]))}}

\* Decoder::read_bounded::<u32>, for the encodings `sources`.
read_bounded_u32_of(sources, kd, p, n, ctx) ==
    with_context(ctx, "U32", p,
                 read_leb128_raw("u32", sources, kd, p, n,
                                 ContextStack_push(ctx, "U32", p).stack))

\* Decoder::read_bounded::<u32>
read_bounded_u32(kd, p, n, ctx) == read_bounded_u32_of(U32Sources, kd, p, n, ctx)

\* Decoder::read_exact_raw of `count` bytes (the bytes are drawn by the caller).
read_exact_raw(kd, p, n, count, ctx) ==
    {LET r == Stream_read_exact(kd, p, n, count, io)
     IN  IF r.ok THEN Out("Ok", count, <<>>, "none", r.pos, FALSE, ctx)
         ELSE StorageOut(r, p, n, count, io, ctx)
     : io \in IoChoices(kd)}

\* Decoder::read_exact
Decoder_read_exact(kd, p, n, count, ctx) ==
    with_context(ctx, "ReadingBytes", p,
                 read_exact_raw(kd, p, n, count, ContextStack_push(ctx, "ReadingBytes", p).stack))

\* Decoder::skip_bytes. Skipping past the end of the input is recorded as
\* `short` whether or not the provider notices.
Decoder_skip_bytes(kd, p, n, count, ctx) ==
    with_context(ctx, "SkippingBytes", p,
        {LET r == Stream_skip_bytes(kd, p, n, count, io)
         IN  IF r.ok
             THEN Out("Ok", count, <<>>, "none", r.pos, ~io /\ count > Avail(p, n),
                      ContextStack_push(ctx, "SkippingBytes", p).stack)
             ELSE StorageOut(r, p, n, count, io,
                             ContextStack_push(ctx, "SkippingBytes", p).stack)
         : io \in IoChoices(kd)})

\* Vec::try_reserve_exact(count): whether the allocator serves it. Nothing
\* is allocated for no elements.
AllocChoices(count) == IF count = 0 THEN {TRUE} ELSE BOOLEAN

\* Decoder::read_bytes: try_reserve_exact, then read_exact.
Decoder_read_bytes(kd, p, n, count, ctx) ==
    UNION {IF alloc THEN Decoder_read_exact(kd, p, n, count, ctx)
           ELSE {Out("AllocError", 0, <<>>, "none", p, FALSE, ctx)}
           : alloc \in AllocChoices(count)}

-----------------------------------------------------------------------------
(* src/decode/decodable_impls.rs: the values decode_module reads itself *)

\* u32::from_le_bytes
u32_from_le_bytes(buf) ==
    buf[1] + 256 * buf[2] + 65536 * buf[3] + 16777216 * buf[4]

\* Magic::Value = 0x6d_73_61_00 and the only Version, 1.
MagicValue == 1836278016

VersionValue == 1

\* The four bytes tried for the magic and for the version: the right ones,
\* and the ones of the spec's bad-magic and bad-version scenarios.
MagicInputs == {<<0, 97, 115, 109>>, <<1, 2, 3, 4>>}

VersionInputs == {<<1, 0, 0, 0>>, <<2, 0, 0, 0>>}

\* impl_parsable_for_le_u32_enum!: read_exact_raw of 4 bytes, from_le_bytes,
\* try_from; under the frame read_bounded pushes.
read_bounded_le_u32_enum(kd, p, n, ctx, cid, inputs, valid, make_err) ==
    with_context(ctx, cid, p,
        UNION {{IF o.tag # "Ok" THEN o
                ELSE IF u32_from_le_bytes(buf) = valid
                THEN [o EXCEPT !.value = u32_from_le_bytes(buf)]
                ELSE [o EXCEPT !.tag = make_err, !.value = u32_from_le_bytes(buf)]
                : buf \in inputs}
               : o \in read_exact_raw(kd, p, n, 4, ContextStack_push(ctx, cid, p).stack)})

\* The bytes tried for a section ID: every valid tag and an invalid one.
SectionIdInputs == SectionIds \cup {13}

\* impl_parsable_for_u8_enum!(SectionId): read_byte_raw, then try_from;
\* under the frame read_bounded pushes.
read_bounded_SectionId(kd, p, n, ctx) ==
    with_context(ctx, "SectionId", p,
        UNION {LET r == Stream_read_byte(kd, p, n, io)
                   pushed == ContextStack_push(ctx, "SectionId", p).stack
               IN  IF ~r.ok THEN {StorageOut(r, p, n, 1, io, pushed)}
                   ELSE {IF byte \in SectionIds
                         THEN Out("Ok", byte, <<>>, "none", r.pos, FALSE, pushed)
                         ELSE Out("InvalidToken", byte, <<>>, "none", r.pos, FALSE, pushed)
                         : byte \in SectionIdInputs}
               : io \in IoChoices(kd)})

\* The longest name whose bytes are all tried; longer names are tried with
\* one content only.
MaxNameLen == 1

\* The bytes names are made of: 0x01, 'a', and 0xFF, which no UTF-8 text holds.
NameBytes == {1, 97, 255}

NameInputs(count) ==
    IF count <= MaxNameLen THEN [1..count -> NameBytes] ELSE {[i \in 1..count |-> 97]}

\* str::from_utf8(&bytes).is_ok(), for names made of NameBytes.
IsUtf8(bytes) == \A i \in 1..Len(bytes) : bytes[i] < 128

\* impl Decodable for Name, under the frame Decoder::read pushes: the length,
\* the reservation (alloc: whether the allocator can serve it), the bytes,
\* the UTF-8 check. The Ok outcome carries the name in `bytes`.
read_Name(kd, p, n, ctx) ==
    LET pushed == ContextStack_push(ctx, "Name", p).stack
    IN  with_context(ctx, "Name", p,
          UNION {IF o1.tag # "Ok" THEN {o1}
                 ELSE UNION {
                   IF ~alloc THEN {Out("AllocError", 0, <<>>, "none", o1.pos, FALSE, pushed)}
                   ELSE UNION {IF o2.tag # "Ok" THEN {o2}
                               ELSE {IF IsUtf8(bytes)
                                     THEN [o2 EXCEPT !.bytes = bytes]
                                     ELSE [o2 EXCEPT !.tag = "InvalidUtf8"]
                                     : bytes \in NameInputs(o1.value)}
                               : o2 \in Decoder_read_exact(kd, o1.pos, n, o1.value, pushed)}
                   : alloc \in AllocChoices(o1.value)}
                 : o1 \in read_bounded_u32(kd, p, n, pushed)})

-----------------------------------------------------------------------------
(* Values shared by the specifications *)

\* Option::None for last_id.
NoId == 99

\* The section slots of a Module before any section is decoded: the vector
\* sections are empty vectors (their length 0), startsec and datacountsec are
\* None (written -1), as decode_module initialises them.
None == -1

StreamIdle == kind = "buffer" /\ size = 0 /\ pos = 0

\* A Result<Module, Error>: the Error variant's name and fields, "Ok" for a
\* Module (its fields are the variable `module`), "none" while decoding runs.
NoResult ==
    [tag |-> "none", id |-> NoId, before |-> NoId, after |-> NoId,
     expected |-> 0, actual |-> 0, err |-> "none", context |-> "none", offset |-> 0]

DecodeIdle ==
    /\ pc = "idle" /\ context = <<>> /\ result = NoResult
    /\ last_id = NoId /\ id = NoId /\ len = 0 /\ offset_start = 0
    /\ name = <<>> /\ vec_len = 0 /\ vec = 0 /\ module = <<>> /\ depth = 0

\* What has been observed of a run: the calls made to the custom-section
\* visitor; the sections whose ID was read, each with its declared length,
\* the bytes its body consumed, what it decoded to (the number of elements,
\* the u32, or for a custom section the bytes its name took) and its name;
\* where the decoder asked for bytes beyond the end of the input; the outcome
\* of the last read of a section ID; the bytes the decoder took for a
\* section's name that lie beyond the section's declared end.
NoIdRead == [tag |-> "none", err |-> "none"]

HistoryIdle ==
    /\ visitor = <<>> /\ sections = <<>> /\ truncated = "none"
    /\ id_read = NoIdRead /\ overread = <<>>

LebIdle == lebT = "u32" /\ lebSrc = <<>> /\ lebOut = [tag |-> "none"]

ExprIdle == data = <<>> /\ slots = <<>>

UnitIdle == nest = <<>> /\ groups = <<>> /\ decoded = <<>> /\ ExprIdle

-----------------------------------------------------------------------------
(* src/decode/mod.rs: decode_module, the values it builds *)

Error(tag) == [NoResult EXCEPT !.tag = tag]

Error_Storage(e) == [NoResult EXCEPT !.tag = "Storage", !.err = e]

Error_OutOfOrderSection(before, after) ==
    [NoResult EXCEPT !.tag = "OutOfOrderSection", !.before = before, !.after = after]

Error_DuplicateSection(sid) == [NoResult EXCEPT !.tag = "DuplicateSection", !.id = sid]

Error_InvalidSectionLength(sid, expected, actual) ==
    [NoResult EXCEPT !.tag = "InvalidSectionLength", !.id = sid,
                     !.expected = expected, !.actual = actual]

Ok_Module == [NoResult EXCEPT !.tag = "Ok"]

\* The `?` operator on a failed read: the read's error is decode_module's.
Error_ExcessiveParsingDepth(cid, offset) ==
    [NoResult EXCEPT !.tag = "ExcessiveParsingDepth", !.context = cid, !.offset = offset]

Error_TooManyLocals(subtotal) == [NoResult EXCEPT !.tag = "TooManyLocals", !.actual = subtotal]

\* InvalidToken(byte), InvalidValType(byte), InvalidBulkOpcode(val)
Error_Invalid(tag, value) == [NoResult EXCEPT !.tag = tag, !.actual = value]

Propagate(o) ==
    IF o.tag = "Storage" THEN Error_Storage(o.err)
    ELSE IF o.tag = "TooManyLocals" THEN Error_TooManyLocals(o.value)
    ELSE IF o.tag = "ExcessiveParsingDepth" THEN Error_ExcessiveParsingDepth(o.err, o.value)
    ELSE IF o.tag \in {"InvalidToken", "InvalidValType", "InvalidBulkOpcode"}
    THEN Error_Invalid(o.tag, o.value)
    ELSE Error(o.tag)

\* The sections held in a vector, and the two held in an Option.
VecSections == {Type, Import, Function, Table, Memory, Global, Export, Element, Code, Data}

ScalarSections == {Start, DataCount}

\* The section slots before the loop: empty vectors (their length, 0) and None.
NewModule(version) ==
    [version |-> version,
     secs |-> [sid \in SectionIds \ {Custom} |-> IF sid \in VecSections THEN 0 ELSE None]]

\* The ordering check of the section loop: what it returns, or "pass".
OrderingCheck(sid, last) ==
    IF sid # Custom /\ last # NoId
    THEN IF SectionId_le(sid, last) THEN "OutOfOrderSection"
         ELSE IF sid = last THEN "DuplicateSection"
         ELSE "pass"
    ELSE "pass"

\* last_id set for every section, custom too.
next_last_id_Always(sid, last) == sid

\* last_id after the ordering check passed.
next_last_id(sid, last) == IF sid # Custom THEN sid ELSE last

\* Contextual::ID of each section type, and of the elements of its vector.
SectionContext(sid) ==
    CASE sid = Type -> "TypeSec" [] sid = Import -> "ImportSec"
      [] sid = Function -> "FuncSec" [] sid = Table -> "TableSec"
      [] sid = Memory -> "MemorySec" [] sid = Global -> "GlobalSec"
      [] sid = Export -> "ExportSec" [] sid = Start -> "StartSec"
      [] sid = Element -> "ElemSec" [] sid = Code -> "CodeSec"
      [] sid = Data -> "DataSec" [] sid = DataCount -> "U32"
      [] OTHER -> "CustomSec"

ItemContext(sid) ==
    CASE sid = Type -> "FuncType" [] sid = Import -> "Import"
      [] sid = Function -> "TypeIdx" [] sid = Table -> "TableType"
      [] sid = Memory -> "MemType" [] sid = Global -> "Global"
      [] sid = Export -> "Export" [] sid = Element -> "Elem"
      [] sid = Code -> "Func" [] sid = Data -> "Data"
      [] OTHER -> "Invalid"

\* The fewest bytes an element of each vector takes: functype 60 00 00;
\* import: two empty names, a token, an index; typeidx: one byte; tabletype:
\* reftype and limits; memtype: limits; global: valtype, mut, 0B; export: an
\* empty name, a token, an index; elem 0: 0B and an empty vector; func: size,
\* no locals, 0B; data 1: the token and an empty vector.
ItemMinSize(sid) ==
    CASE sid = Import -> 4
      [] sid \in {Type, Table, Global, Export, Element, Code} -> 3
      [] sid \in {Memory, Data} -> 2
      [] OTHER -> 1

\* The elements that hold expressions or locals, whose decoding can reach a
\* todo!() or a failed expect().
ItemMayAbort(sid) == sid \in {Global, Element, Code, Data}

\* How many bytes beyond the fewest an element is tried with.
MaxItemExtra == 0

\* The error of the provider at the end of the input.
EofError(kd) == IF kd = "buffer" THEN "MemoryEof" ELSE "UnexpectedEof"

\* Decoder::read of one element of section sid's vector, by its outcomes:
\* decoded from k bytes; the input ends inside it; an I/O error; a malformed
\* element; no memory for it; an abort.
read_item(kd, p, n, ctx, sid) ==
    LET pushed == ContextStack_push(ctx, ItemContext(sid), p).stack
        sizes == ItemMinSize(sid)..(ItemMinSize(sid) + MaxItemExtra)
    IN  with_context(ctx, ItemContext(sid), p,
          {Out("Ok", k, <<>>, "none", p + k, FALSE, pushed) :
              k \in {j \in sizes : j <= Avail(p, n)}}
          \cup {Out("Storage", 0, <<>>, EofError(kd), p + Avail(p, n), TRUE, pushed)}
          \cup {Out("Storage", 0, <<>>, "Other", p, FALSE, pushed) :
                  io \in IoChoices(kd) \ {FALSE}}
          \cup {Out("InvalidToken", 0, <<>>, "none", p + k, FALSE, pushed) :
                  k \in {j \in 1..ItemMinSize(sid) : j <= Avail(p, n)}}
          \cup {Out("AllocError", 0, <<>>, "none", p, FALSE, pushed)}
          \cup {Out("Abort", 0, <<>>, "none", p, FALSE, pushed) :
                  a \in IF ItemMayAbort(sid) THEN {sid} ELSE {}})

-----------------------------------------------------------------------------
(* Spec: decode_module on every input of up to MaxSize bytes, from either  *)
(* provider. pc is the read decode_module is about to make.                *)

\* The longest input: magic, version and three sections of three bytes.
MaxSize == 17

Init ==
    /\ kind \in StreamKinds /\ size \in 0..MaxSize /\ pos = 0
    /\ pc = "magic" /\ context = <<>> /\ result = NoResult
    /\ last_id = NoId /\ id = NoId /\ len = 0 /\ offset_start = 0
    /\ name = <<>> /\ vec_len = 0 /\ vec = 0 /\ module = <<>> /\ depth = 0
    /\ HistoryIdle /\ LebIdle /\ UnitIdle

\* The first place where the decoder asked for bytes beyond the input's end.
Truncated(o, place) == IF o.short /\ truncated = "none" THEN place ELSE truncated

\* A read failed: its error is returned, with the stream and the context
\* stack as the read left them.
Fail(o, place) ==
    /\ pc' = "done"
    /\ result' = Propagate(o)
    /\ pos' = o.pos
    /\ context' = o.ctx
    /\ truncated' = Truncated(o, place)

\* A read succeeded and decode_module goes on to `next`.
Goto(o, next) ==
    /\ pc' = next
    /\ pos' = o.pos
    /\ context' = o.ctx
    /\ UNCHANGED <<result, truncated>>

NewSection(sid) ==
    [id |-> sid, len |-> None, actual |-> None, content |-> None, name |-> <<>>]

\* The last section of the history, with field values replaced.
LastSectionWith(len_, actual_, content_, name_) ==
    [sections EXCEPT ![Len(sections)] =
        [id |-> id, len |-> len_, actual |-> actual_, content |-> content_, name |-> name_]]

\* decoder.read_bounded::<Magic>(context)?
ReadMagic ==
    /\ pc = "magic"
    /\ \E o \in read_bounded_le_u32_enum(kind, pos, size, context, "Magic",
                                         MagicInputs, MagicValue, "InvalidMagic") :
          IF o.tag = "Ok" THEN Goto(o, "version") ELSE Fail(o, "magic")
    /\ UNCHANGED <<kind, size, last_id, id, len, offset_start, name, vec_len, vec, module,
                   visitor, sections, id_read, overread, lebVars, depth, unitVars>>

\* let version: Version = decoder.read_bounded(context)?; and the section
\* slots created after it.
ReadVersion ==
    /\ pc = "version"
    /\ \E o \in read_bounded_le_u32_enum(kind, pos, size, context, "Version",
                                         VersionInputs, VersionValue, "UnknownVersion") :
          IF o.tag = "Ok"
          THEN Goto(o, "section_id") /\ module' = NewModule(o.value)
          ELSE Fail(o, "version") /\ module' = module
    /\ UNCHANGED <<kind, size, last_id, id, len, offset_start, name, vec_len, vec,
                   visitor, sections, id_read, overread, lebVars, depth, unitVars>>

\* The head of the section loop: the read of the section ID, the break at
\* the end of the input, the ordering check, the update of last_id.
ReadSectionId ==
    /\ pc = "section_id"
    /\ \E o \in read_bounded_SectionId(kind, pos, size, context) :
          /\ id_read' = [tag |-> o.tag, err |-> o.err]
          /\ pos' = o.pos
          /\ context' = o.ctx
          /\ IF o.tag = "Storage" /\ is_eof(kind, o.err)
             THEN /\ pc' = "done"
                  /\ result' = Ok_Module
                  /\ truncated' = Truncated(o, "section_id")
                  /\ UNCHANGED <<id, last_id, sections>>
             ELSE IF o.tag # "Ok"
             THEN /\ pc' = "done"
                  /\ result' = Propagate(o)
                  /\ truncated' = Truncated(o, "section_id")
                  /\ UNCHANGED <<id, last_id, sections>>
             ELSE /\ id' = o.value
                  /\ sections' = Append(sections, NewSection(o.value))
                  /\ truncated' = truncated
                  /\ IF OrderingCheck(o.value, last_id) = "OutOfOrderSection"
                     THEN /\ pc' = "done"
                          /\ result' = Error_OutOfOrderSection(last_id, o.value)
                          /\ last_id' = last_id
                     ELSE IF OrderingCheck(o.value, last_id) = "DuplicateSection"
                     THEN /\ pc' = "done"
                          /\ result' = Error_DuplicateSection(o.value)
                          /\ last_id' = last_id
                     ELSE /\ pc' = "section_len"
                          /\ result' = result
                          /\ last_id' = next_last_id(o.value, last_id)
    /\ UNCHANGED <<kind, size, len, offset_start, name, vec_len, vec, module,
                   visitor, overread, lebVars, depth, unitVars>>

\* let len: u32 = decoder.read_bounded(context)?; let offset_start = ...
ReadSectionLen ==
    /\ pc = "section_len"
    /\ \E o \in read_bounded_u32(kind, pos, size, context) :
          IF o.tag = "Ok"
          THEN /\ Goto(o, "section_body")
               /\ len' = o.value
               /\ offset_start' = o.pos
               /\ sections' = LastSectionWith(o.value, None, None, <<>>)
          ELSE /\ Fail(o, "section_len")
               /\ UNCHANGED <<len, offset_start, sections>>
    /\ UNCHANGED <<kind, size, last_id, id, name, vec_len, vec, module,
                   visitor, id_read, overread, lebVars, depth, unitVars>>

\* The check after the match: the error it returns, or NoResult.
SectionLengthCheck(sid, expected, actual) ==
    IF actual # expected THEN Error_InvalidSectionLength(sid, expected, actual)
    ELSE NoResult

\* The body of the section was read by o: the length check, and the next
\* iteration of the loop if it passes.
EndBody(o, ctx, place, content_, name_) ==
    /\ pos' = o.pos
    /\ context' = ctx
    /\ truncated' = Truncated(o, place)
    /\ sections' = LastSectionWith(len, o.pos - offset_start, content_, name_)
    /\ result' = SectionLengthCheck(id, len, o.pos - offset_start)
    /\ pc' = IF SectionLengthCheck(id, len, o.pos - offset_start) = NoResult
             THEN "section_id" ELSE "done"

\* The bytes a name was decoded from, `count` of them: its length in a u32
\* of U32Sources, then its bytes.
NameEncoding(count, bytes) ==
    Repeat(U32ContByte, count - Len(bytes) - 1) \o <<Len(bytes)>> \o bytes

\* SectionId::Custom, the name: decoder.read::<Name>, and the break when the
\* name is longer than the section.
ReadCustomName ==
    /\ pc = "section_body" /\ id = Custom
    /\ \E o \in read_Name(kind, pos, size, context) :
          IF o.tag # "Ok"
          THEN Fail(o, "custom_name") /\ UNCHANGED <<name, sections, overread>>
          ELSE IF o.pos - pos > len
          THEN /\ pc' = "done"
               /\ overread' = SubSeq(NameEncoding(o.pos - pos, o.bytes), len + 1, o.pos - pos)
               /\ result' = Ok_Module
               /\ pos' = o.pos
               /\ context' = o.ctx
               /\ truncated' = truncated
               /\ name' = o.bytes
               /\ sections' = LastSectionWith(len, o.pos - pos, o.pos - pos, o.bytes)
          ELSE /\ Goto(o, "custom_payload")
               /\ name' = o.bytes
               /\ overread' = overread
               /\ sections' = LastSectionWith(len, None, o.pos - pos, o.bytes)
    /\ UNCHANGED <<kind, size, last_id, id, len, offset_start, vec_len, vec, module,
                   visitor, id_read, lebVars, depth, unitVars>>

VisitorCall(call, name_, count, answer) ==
    [call |-> call, name |-> name_, count |-> count, answer |-> answer]

\* SectionId::Custom, the rest: should_visit (sv is the visitor's answer),
\* then read_bytes and visit, or skip_bytes; then the length check.
ReadCustomPayload ==
    /\ pc = "custom_payload"
    /\ \E sv \in BOOLEAN :
          LET count  == len - (pos - offset_start)
              called == Append(visitor, VisitorCall("should_visit", name, 0, sv))
          IN  \E o \in IF sv THEN Decoder_read_bytes(kind, pos, size, count, context)
                       ELSE Decoder_skip_bytes(kind, pos, size, count, context) :
                 IF o.tag # "Ok"
                 THEN /\ Fail(o, "custom_payload")
                      /\ visitor' = called
                      /\ UNCHANGED sections
                 ELSE /\ EndBody(o, o.ctx, "custom_payload", pos - offset_start, name)
                      /\ visitor' = IF sv
                                    THEN Append(called, VisitorCall("visit", name, count, sv))
                                    ELSE called
    /\ UNCHANGED <<kind, size, last_id, id, len, offset_start, name, vec_len, vec, module,
                   id_read, overread, lebVars, depth, unitVars>>

\* SectionId::Start and SectionId::DataCount: Some(decoder.read(..)?), a u32
\* under the frame of StartSection or of u32; then the length check.
ReadScalarSection ==
    /\ pc = "section_body" /\ id \in ScalarSections
    /\ \E o \in with_context(context, SectionContext(id), pos,
                   read_leb128_raw("u32", U32Sources, kind, pos, size,
                                   ContextStack_push(context, SectionContext(id), pos).stack)) :
          IF o.tag # "Ok"
          THEN Fail(o, "section_body") /\ UNCHANGED <<module, sections>>
          ELSE /\ EndBody(o, o.ctx, "section_body", o.value, <<>>)
               /\ module' = [module EXCEPT !.secs[id] = o.value]
    /\ UNCHANGED <<kind, size, last_id, id, len, offset_start, name, vec_len, vec,
                   visitor, id_read, overread, lebVars, depth, unitVars>>

\* A section held in a vector: decoder.read pushes the section's frame, and
\* Vec::decode reads the number of elements and reserves them. An empty
\* vector is complete: the frame is popped, the slot assigned, the length
\* checked.
ReadVecLen ==
    /\ pc = "section_body" /\ id \in VecSections
    /\ LET pushed == ContextStack_push(context, SectionContext(id), pos)
       IN  IF ~pushed.ok
           THEN /\ Fail(Out("ExcessiveParsingDepth", 0, <<>>, "none", pos, FALSE, context),
                        "section_body")
                /\ UNCHANGED <<vec_len, vec, module, sections>>
           ELSE \E o \in read_bounded_u32(kind, pos, size, pushed.stack) :
                   IF o.tag # "Ok"
                   THEN /\ Fail(o, "section_body")
                        /\ UNCHANGED <<vec_len, vec, module, sections>>
                   ELSE \E alloc \in AllocChoices(o.value) :
                           IF ~alloc
                           THEN /\ Fail([o EXCEPT !.tag = "AllocError"], "section_body")
                                /\ UNCHANGED <<vec_len, vec, module, sections>>
                           ELSE IF o.value = 0
                           THEN /\ EndBody(o, ContextStack_pop(o.ctx), "section_body", 0, <<>>)
                                /\ module' = [module EXCEPT !.secs[id] = 0]
                                /\ UNCHANGED <<vec_len, vec>>
                           ELSE /\ Goto(o, "vec_item")
                                /\ vec_len' = o.value
                                /\ vec' = 0
                                /\ UNCHANGED <<module, sections>>
    /\ UNCHANGED <<kind, size, last_id, id, len, offset_start, name,
                   visitor, id_read, overread, lebVars, depth, unitVars>>

\* One turn of Vec::decode's loop: vec.push(decoder.read(..)?); len -= 1.
\* After the last element the vector is complete, as in ReadVecLen.
ReadVecItem ==
    /\ pc = "vec_item"
    /\ \E o \in read_item(kind, pos, size, context, id) :
          IF o.tag # "Ok"
          THEN /\ Fail(o, "vec_item")
               /\ UNCHANGED <<vec_len, vec, module, sections>>
          ELSE IF vec_len = 1
          THEN /\ EndBody(o, ContextStack_pop(o.ctx), "vec_item", vec + 1, <<>>)
               /\ module' = [module EXCEPT !.secs[id] = vec + 1]
               /\ vec_len' = 0
               /\ vec' = vec + 1
          ELSE /\ Goto(o, "vec_item")
               /\ vec_len' = vec_len - 1
               /\ vec' = vec + 1
               /\ UNCHANGED <<module, sections>>
    /\ UNCHANGED <<kind, size, last_id, id, len, offset_start, name,
                   visitor, id_read, overread, lebVars, depth, unitVars>>

Next ==
    \/ ReadMagic
    \/ ReadVersion
    \/ ReadSectionId
    \/ ReadSectionLen
    \/ ReadCustomName
    \/ ReadCustomPayload
    \/ ReadScalarSection
    \/ ReadVecLen
    \/ ReadVecItem

Spec == Init /\ [][Next]_vars

-----------------------------------------------------------------------------
(* src/decode/decodable_impls.rs, src/decode/expr.rs: what a function body *)
(* is made of                                                              *)

\* ValType, by byte.
ValType_I32 == 127

ValType_I64 == 126

ValType_F32 == 125

ValType_F64 == 124

ValType_Vec == 123

ValType_FuncRef == 112

ValType_ExternRef == 111

ValTypes == {ValType_I32, ValType_I64, ValType_F32, ValType_F64, ValType_Vec,
             ValType_FuncRef, ValType_ExternRef}

\* The bytes tried where a ValType stands: every ValType and 0x00.
ValTypeInputs == ValTypes \cup {0}

\* The opcodes tried: nop, block, end, the vector prefix, and 0x06, which is
\* no opcode.
Opcode_Nop == 1

Opcode_Block == 2

Opcode_End == 11

Opcode_VectorPrefix == 253

OpcodeInputs == {Opcode_Nop, Opcode_Block, Opcode_End, Opcode_VectorPrefix, 6}

Opcodes == {Opcode_Nop, Opcode_Block, Opcode_End, Opcode_VectorPrefix}

MAX_LOCALS_PER_FUNCTION == 2000

\* impl_parsable_for_u8_enum!, under the frame read_bounded pushes.
read_bounded_u8_enum(kd, p, n, ctx, cid, inputs, valid) ==
    with_context(ctx, cid, p,
        UNION {LET r == Stream_read_byte(kd, p, n, io)
                   pushed == ContextStack_push(ctx, cid, p).stack
               IN  IF ~r.ok THEN {StorageOut(r, p, n, 1, io, pushed)}
                   ELSE {IF byte \in valid
                         THEN Out("Ok", byte, <<>>, "none", r.pos, FALSE, pushed)
                         ELSE Out("InvalidToken", byte, <<>>, "none", r.pos, FALSE, pushed)
                         : byte \in inputs}
               : io \in IoChoices(kd)})

\* A cap that refuses MAX_LOCALS_PER_FUNCTION locals too.
ExceedsLocalsCap_Inclusive(subtotal) == subtotal >= MAX_LOCALS_PER_FUNCTION

\* `if subtotal > MAX_LOCALS_PER_FUNCTION`
ExceedsLocalsCap(subtotal) == subtotal > MAX_LOCALS_PER_FUNCTION

\* The Local a ValType turns into, where Local::from returns: the variant of
\* the type holding 0.
Local_value(vt) == [variant |-> vt, value |-> 0]

\* A Vec<Local> is kept as its runs of equal elements, [n, v] for n times v.
RECURSIVE Vec_len(_)
Vec_len(runs) == IF runs = <<>> THEN 0 ELSE Head(runs).n + Vec_len(Tail(runs))

\* Vec::resize(new_len, value), for new_len >= len() as Locals::decode calls it.
Vec_resize(runs, new_len, value) ==
    IF new_len > Vec_len(runs)
    THEN Append(runs, [n |-> new_len - Vec_len(runs), v |-> value])
    ELSE runs

\* The encodings tried for the count of a group of locals: those of
\* U32Sources, and 1999, 2000 and 2001.
LocalCountSources == U32Sources \cup {<<207, 15>>, <<208, 15>>, <<209, 15>>}

\* impl From<ValType> for Local: whether it returns a Local or reaches todo!().
Local_from(vt) == IF vt \in {ValType_Vec, ValType_ExternRef} THEN "todo" ELSE "Local"

\* u8::try_from(i32).is_ok()
u8_try_from_ok(x) == 0 <= x /\ x <= 255

\* BlockType::decode after the i32 is read: the variant returned, the error,
\* or the failed expect().
BlockType_of(value) ==
    IF value < 0
    THEN IF ~u8_try_from_ok(value + 128) THEN "Abort"
         ELSE IF value + 128 = 64 THEN "Empty"
         ELSE IF value + 128 \in ValTypes THEN "Result"
         ELSE "InvalidValType"
    ELSE "TypeIndex"

\* The encodings tried where a block type stands: 0x40, i32 (0x7F), type
\* index 0, 0x41 (no value type), -129 in two bytes, 0x40 padded to two
\* bytes, -128 in two bytes; and encodings the input ends under.
I32Sources ==
    {<<64>>, <<127>>, <<0>>, <<65>>, <<255, 126>>, <<192, 127>>, <<128, 127>>,
     <<>>, <<128>>}

\* decoder.read_bounded::<BlockType>: BlockType::decode under its frame, the
\* i32 under its own.
read_bounded_BlockType(kd, p, n, ctx) ==
    LET pushed == ContextStack_push(ctx, "BlockType", p).stack
    IN  with_context(ctx, "BlockType", p,
          {IF o.tag # "Ok" THEN o
           ELSE IF BlockType_of(o.value) = "Abort" THEN [o EXCEPT !.tag = "Abort"]
           ELSE IF BlockType_of(o.value) = "InvalidValType"
           THEN [o EXCEPT !.tag = "InvalidValType", !.value = o.value + 128]
           ELSE o
           : o \in with_context(pushed, "I32", p,
                     read_leb128_raw("i32", I32Sources, kd, p, n,
                                     ContextStack_push(pushed, "I32", p).stack))})

-----------------------------------------------------------------------------
(* SpecFunc: Function::decode on every input of up to MaxFuncSize bytes:   *)
(* the size, the locals, the expression. The stream starts at the function *)
(* and the context stack holds the frames of the code section and of the   *)
(* function, as decode_module's read of the section leaves them.           *)

\* The longest function body tried.
MaxFuncSize == 7

InitFunc ==
    /\ kind \in StreamKinds /\ size \in 0..MaxFuncSize /\ pos = 0
    /\ pc = "func_size"
    /\ context = <<[id |-> "CodeSec", offset |-> 0], [id |-> "Func", offset |-> 0]>>
    /\ result = NoResult
    /\ last_id = NoId /\ id = NoId /\ len = 0 /\ offset_start = 0
    /\ name = <<>> /\ vec_len = 0 /\ vec = <<>> /\ module = <<>> /\ depth = 0
    /\ HistoryIdle /\ LebIdle /\ UnitIdle

\* An Out for an error raised at the point o was read.
Raised(o, tag) == [o EXCEPT !.tag = tag]

\* let expected_size = decoder.read_bounded::<u32>(context)? as usize;
ReadFuncSize ==
    /\ pc = "func_size"
    /\ \E o \in read_bounded_u32(kind, pos, size, context) :
          IF o.tag = "Ok"
          THEN Goto(o, "locals") /\ len' = o.value /\ offset_start' = o.pos
          ELSE Fail(o, "func_size") /\ UNCHANGED <<len, offset_start>>
    /\ UNCHANGED <<kind, size, last_id, id, name, vec_len, vec, module, depth,
                   visitor, sections, id_read, overread, lebVars, unitVars>>

\* decoder.read::<Locals> up to the loop: the frame, num_groups. Without
\* groups the locals are complete and the frame is popped.
ReadLocalsCount ==
    /\ pc = "locals"
    /\ LET pushed == ContextStack_push(context, "Locals", pos)
       IN  IF ~pushed.ok
           THEN /\ Fail(Out("ExcessiveParsingDepth", 0, <<>>, "none", pos, FALSE, context),
                        "locals")
                /\ UNCHANGED <<vec_len, vec>>
           ELSE \E o \in read_bounded_u32(kind, pos, size, pushed.stack) :
                   IF o.tag # "Ok"
                   THEN Fail(o, "locals") /\ UNCHANGED <<vec_len, vec>>
                   ELSE IF o.value = 0
                   THEN /\ Goto([o EXCEPT !.ctx = ContextStack_pop(o.ctx)], "expr")
                        /\ vec_len' = 0 /\ vec' = <<>>
                   ELSE /\ Goto(o, "local_group")
                        /\ vec_len' = o.value /\ vec' = <<>>
    /\ UNCHANGED <<kind, size, last_id, id, len, offset_start, name, module, depth,
                   visitor, sections, id_read, overread, lebVars, unitVars>>

\* One turn of the loop of Locals::decode: count, the ValType, Local::from,
\* the cap on the number of locals, the reservation.
ReadLocalGroup ==
    /\ pc = "local_group"
    /\ \E o1 \in read_bounded_u32_of(LocalCountSources, kind, pos, size, context) :
          IF o1.tag # "Ok"
          THEN Fail(o1, "local_group") /\ UNCHANGED <<vec_len, vec, groups>>
          ELSE \E o2 \in read_bounded_u8_enum(kind, o1.pos, size, o1.ctx, "ValType",
                                              ValTypeInputs, ValTypes) :
                  IF o2.tag # "Ok"
                  THEN Fail(o2, "local_group") /\ UNCHANGED <<vec_len, vec, groups>>
                  ELSE IF Local_from(o2.value) = "todo"
                  THEN /\ Fail(Raised(o2, "Abort"), "local_group")
                       /\ UNCHANGED <<vec_len, vec, groups>>
                  ELSE
                    LET subtotal == Vec_len(vec) + o1.value
                    IN  /\ groups' = Append(groups, [count |-> o1.value, ty |-> o2.value])
                        /\ IF ExceedsLocalsCap(subtotal)
                           THEN /\ Fail([o2 EXCEPT !.tag = "TooManyLocals", !.value = subtotal],
                                        "local_group")
                                /\ UNCHANGED <<vec_len, vec>>
                           ELSE \E alloc \in AllocChoices(o1.value) :
                                  IF ~alloc
                                  THEN /\ Fail(Raised(o2, "AllocError"), "local_group")
                                       /\ UNCHANGED <<vec_len, vec>>
                                  ELSE /\ vec' = Vec_resize(vec, subtotal, Local_value(o2.value))
                                       /\ vec_len' = vec_len - 1
                                       /\ IF vec_len = 1
                                          THEN Goto([o2 EXCEPT !.ctx = ContextStack_pop(o2.ctx)],
                                                    "expr")
                                          ELSE Goto(o2, "local_group")
    /\ UNCHANGED <<kind, size, last_id, id, len, offset_start, name, module, depth,
                   visitor, sections, id_read, overread, lebVars, nest, decoded, exprVars>>

\* decoder.read::<Expression> up to the loop of transcode_expression: the
\* frame, the builder, depth = 0.
BeginExpression ==
    /\ pc = "expr"
    /\ LET pushed == ContextStack_push(context, "Expr", pos)
       IN  IF ~pushed.ok
           THEN /\ Fail(Out("ExcessiveParsingDepth", 0, <<>>, "none", pos, FALSE, context),
                        "expr")
                /\ depth' = depth
           ELSE /\ pc' = "opcode"
                /\ context' = pushed.stack
                /\ depth' = 0
                /\ UNCHANGED <<pos, result, truncated>>
    /\ UNCHANGED <<kind, size, last_id, id, len, offset_start, name, vec_len, vec, module,
                   visitor, sections, id_read, overread, lebVars, unitVars>>

\* Function::decode after the expression: the size check.
FunctionLengthCheck(expected, actual) ==
    IF expected # actual
    THEN [NoResult EXCEPT !.tag = "InvalidFunctionLength",
                          !.expected = expected, !.actual = actual]
    ELSE Ok_Module

\* One turn of the loop of transcode_expression, for an opcode without
\* operands, end or the vector prefix: the opcode, builder.write (alloc:
\* whether the builder's buffer can grow), the match. The end that closes
\* the expression returns to Function::decode, which checks the size.
\* For block the operand is read by ReadBlockType.
ReadOpcode ==
    /\ pc = "opcode"
    /\ \E o \in read_bounded_u8_enum(kind, pos, size, context, "Opcode", OpcodeInputs, Opcodes) :
          IF o.tag # "Ok"
          THEN Fail(o, "opcode") /\ depth' = depth
          ELSE \E alloc \in BOOLEAN :
                  IF ~alloc
                  THEN Fail(Raised(o, "AllocError"), "opcode") /\ depth' = depth
                  ELSE IF o.value = Opcode_VectorPrefix
                  THEN Fail(Raised(o, "Abort"), "opcode") /\ depth' = depth
                  ELSE IF o.value = Opcode_Block
                  THEN Goto(o, "blocktype") /\ depth' = depth
                  ELSE IF o.value = Opcode_End /\ depth = 0
                  THEN /\ pc' = "done"
                       /\ result' = FunctionLengthCheck(len, o.pos - offset_start)
                       /\ pos' = o.pos
                       /\ context' = ContextStack_pop(o.ctx)
                       /\ UNCHANGED <<truncated, depth>>
                  ELSE /\ Goto(o, "opcode")
                       /\ depth' = IF o.value = Opcode_End THEN depth - 1 ELSE depth
    /\ UNCHANGED <<kind, size, last_id, id, len, offset_start, name, vec_len, vec, module,
                   visitor, sections, id_read, overread, lebVars, unitVars>>

\* Opcode::Block: transcode!(BlockType)?; depth += 1.
ReadBlockType ==
    /\ pc = "blocktype"
    /\ \E o \in read_bounded_BlockType(kind, pos, size, context) :
          IF o.tag # "Ok"
          THEN Fail(o, "blocktype") /\ depth' = depth
          ELSE \E alloc \in BOOLEAN :
                  IF ~alloc
                  THEN Fail(Raised(o, "AllocError"), "blocktype") /\ depth' = depth
                  ELSE Goto(o, "opcode") /\ depth' = depth + 1
    /\ UNCHANGED <<kind, size, last_id, id, len, offset_start, name, vec_len, vec, module,
                   visitor, sections, id_read, overread, lebVars, unitVars>>

NextFunc ==
    \/ ReadFuncSize
    \/ ReadLocalsCount
    \/ ReadLocalGroup
    \/ BeginExpression
    \/ ReadOpcode
    \/ ReadBlockType

SpecFunc == InitFunc /\ [][NextFunc]_vars

-----------------------------------------------------------------------------
(* SpecLeb: leb128::read applied to every byte source of LebSources *)

\* The longest byte source tried: one byte more than the 10 an i64 may take.
MaxLebLen == 11

\* Bytes with the continuation bit set.
LebContBytes == {128, 255}

\* Bytes with the continuation bit clear: 0x00 0x01 0x07 0x08 0x0F 0x10 0x1F
\* 0x40 0x70 0x78 0x7E 0x7F.
LebLastBytes == {0, 1, 7, 8, 15, 16, 31, 64, 112, 120, 126, 127}

RECURSIVE LebPrefixes(_)
LebPrefixes(n) ==
    IF n = 0 THEN {<<>>}
    ELSE LET shorter == LebPrefixes(n - 1)
         IN  shorter \cup {Append(s, b) : s \in {t \in shorter : Len(t) = n - 1},
                                         b \in LebContBytes}

\* A run of continuation bytes, then nothing (the source ends there) or one
\* last byte; also the encodings the source's tests pad with 0x82.
LebSources ==
    LET pre == LebPrefixes(MaxLebLen)
    IN  pre
        \cup {Append(s, b) : s \in {t \in pre : Len(t) < MaxLebLen}, b \in LebLastBytes}
        \cup {<<130, 0>>, <<130, 128, 128, 128, 0>>, <<130, 128, 128, 128, 128, 0>>}

InitLeb ==
    /\ lebT \in LebTypes
    /\ lebSrc \in LebSources
    /\ lebOut = [tag |-> "none"]
    /\ StreamIdle /\ DecodeIdle /\ HistoryIdle /\ UnitIdle

\* read::<T, _, _>(byte_reader(bytes)), as the tests of leb128.rs call it.
LebRead ==
    /\ lebOut.tag = "none"
    /\ lebOut' = leb128_read(lebT, lebSrc)
    /\ UNCHANGED <<lebT, lebSrc, streamVars, decodeVars, historyVars, unitVars>>

NextLeb == LebRead

SpecLeb == InitLeb /\ [][NextLeb]_vars

-----------------------------------------------------------------------------
(* SpecCtx: reads nested through Decoder::with_context                     *)
(* read_bounded::<T> is with_context(T::ID, T::decode); T::decode of a     *)
(* composite T calls read_bounded for its first field, and so on down to   *)
(* a read that takes a byte, here read_zero_byte.                          *)

\* The longest chain of composite reads tried around the read_zero_byte.
MaxNest == 6

\* The length of the inputs tried.
MaxCtxSize == 2

\* The ContextIds of the composite reads tried.
NestIds == {"Expr", "MemArg"}

RECURSIVE NestChains(_)
NestChains(n) ==
    IF n = 0 THEN {<<>>}
    ELSE LET shorter == NestChains(n - 1)
         IN  shorter \cup {Append(c, cid) : c \in {t \in shorter : Len(t) = n - 1},
                                           cid \in NestIds}

\* A read_zero_byte that takes any byte.
read_zero_byte_Any(kd, p, n, ctx) ==
    read_bounded_u8_enum(kd, p, n, ctx, "Byte", {0, 1}, {0, 1})

\* Decoder::read_zero_byte
read_zero_byte(kd, p, n, ctx) == read_bounded_u8_enum(kd, p, n, ctx, "Byte", {0, 1}, {0})

\* read_bounded::<T1> whose decode calls read_bounded::<T2> ... whose decode
\* calls read_zero_byte, for the ContextIds cids of T1, T2, ...
RECURSIVE nested_read(_, _, _, _, _)
nested_read(ctx, cids, kd, p, n) ==
    IF cids = <<>> THEN read_zero_byte(kd, p, n, ctx)
    ELSE with_context(ctx, Head(cids), p,
                      nested_read(ContextStack_push(ctx, Head(cids), p).stack,
                                  Tail(cids), kd, p, n))

InitCtx ==
    /\ kind \in StreamKinds /\ size \in 0..MaxCtxSize /\ pos \in 0..size
    /\ pc = "ctx" /\ context = <<>> /\ result = NoResult
    /\ nest \in NestChains(MaxNest) /\ groups = <<>> /\ decoded = <<>> /\ ExprIdle
    /\ last_id = NoId /\ id = NoId /\ len = 0 /\ offset_start = 0
    /\ name = <<>> /\ vec_len = 0 /\ vec = 0 /\ module = <<>> /\ depth = 0
    /\ HistoryIdle /\ LebIdle

\* The nested read runs; an error is what the caller returns.
CtxRead ==
    /\ pc = "ctx"
    /\ \E o \in nested_read(context, nest, kind, pos, size) :
         /\ pc' = "done"
         /\ result' = IF o.tag = "Ok" THEN Error("Ok") ELSE Propagate(o)
         /\ pos' = o.pos
         /\ context' = o.ctx
    /\ UNCHANGED <<kind, size, last_id, id, len, offset_start, name, vec_len, vec, module,
                   depth, historyVars, lebVars, unitVars>>

NextCtx == CtxRead

SpecCtx == InitCtx /\ [][NextCtx]_vars

-----------------------------------------------------------------------------
(* SpecGrammar: the reads decode_module nests. A read is named by the type  *)
(* it decodes (or by the Decoder method, for read_zero_byte, read_exact and *)
(* skip_bytes); nest is the chain of reads in progress, context the frames  *)
(* they pushed. The bytes are left out: every read may be entered, may      *)
(* return, and may fail.                                                    *)

\* The reads made through with_context by decode_module ("decode_module")
\* and by the decode or transcode of each type. A newtype's decode calls its
\* target's decode directly, so a newtype makes the reads of its target and
\* pushes no frame for it; Vec<T> reads its length and its elements.
GrammarReads(T) ==
    CASE T = "decode_module" ->
           {"Magic", "Version", "SectionId", "u32", "Name", "read_exact", "skip_bytes",
            "TypeSection", "ImportSection", "FunctionSection", "TableSection",
            "MemorySection", "GlobalSection", "ExportSection", "StartSection",
            "ElementSection", "CodeSection", "DataSection"}
      [] T = "Name" -> {"u32", "read_exact"}
      [] T = "TypeSection" -> {"u32", "FunctionType"}
      [] T = "FunctionType" -> {"FunctionTypeToken", "ResultType"}
      [] T = "ResultType" -> {"u32", "ValType"}
      [] T = "ImportSection" -> {"u32", "Import"}
      [] T = "Import" -> {"Name", "ImportDescriptor"}
      [] T = "ImportDescriptor" ->
           {"ImportDescriptorToken", "TypeIdx", "TableType", "MemType", "GlobalType"}
      [] T = "TableType" -> {"RefType", "Limits"}
      [] T \in {"Limits", "MemType"} -> {"LimitsToken", "u32"}
      [] T = "GlobalType" -> {"ValType", "GlobalTypeMutability"}
      [] T = "FunctionSection" -> {"u32", "TypeIdx"}
      [] T = "TableSection" -> {"u32", "TableType"}
      [] T = "MemorySection" -> {"u32", "MemType"}
      [] T = "GlobalSection" -> {"u32", "Global"}
      [] T = "Global" -> {"GlobalType", "Expression"}
      [] T = "ExportSection" -> {"u32", "Export"}
      [] T = "Export" -> {"Name", "ExportDescriptor"}
      [] T = "ExportDescriptor" ->
           {"ExportDescriptorToken", "FuncIdx", "TableIdx", "MemIdx", "GlobalIdx"}
      [] T = "ElementSection" -> {"u32", "ElementSegment"}
      [] T = "ElementSegment" ->
           {"ElementSegmentToken", "TableIdx", "Expression", "ElementKind", "RefType",
            "Vec<FuncIdx>", "Vec<Expression>"}
      [] T = "Vec<FuncIdx>" -> {"u32", "FuncIdx"}
      [] T = "Vec<Expression>" -> {"u32", "Expression"}
      [] T = "CodeSection" -> {"u32", "Function"}
      [] T = "Function" -> {"u32", "Locals", "Expression"}
      [] T = "Locals" -> {"u32", "ValType"}
      [] T = "DataSection" -> {"u32", "DataSegment"}
      [] T = "DataSegment" -> {"DataSegmentToken", "MemIdx", "Expression", "Vec<u8>"}
      [] T = "Vec<u8>" -> {"u32", "u8"}
      [] T = "Expression" ->
           {"Opcode", "BlockType", "u32", "LabelIdx", "BulkOpcode", "CallIndirectOperands",
            "f32", "MemArg", "f64", "i32", "i64", "read_zero_byte", "RefType", "ValType",
            "TableCopyOperands", "TableInitOperands"}
      [] T = "BlockType" -> {"i32"}
      [] T = "MemArg" -> {"u32"}
      [] T = "CallIndirectOperands" -> {"TableIdx", "TypeIdx"}
      [] T = "TableCopyOperands" -> {"TableIdx"}
      [] T = "TableInitOperands" -> {"TableIdx", "ElemIdx"}
      [] OTHER -> {}

\* Contextual::ID of a type, and the ContextId the Decoder's own reads push.
ContextIdOf(T) ==
    CASE T \in {"u32", "CallIndirectOperands", "TableCopyOperands", "TableInitOperands"}
           -> "U32"
      [] T \in {"u8", "read_zero_byte"} -> "Byte"
      [] T = "read_exact" -> "ReadingBytes"
      [] T = "skip_bytes" -> "SkippingBytes"
      [] T = "TypeSection" -> "TypeSec"
      [] T = "ImportSection" -> "ImportSec"
      [] T = "FunctionSection" -> "FuncSec"
      [] T = "TableSection" -> "TableSec"
      [] T = "MemorySection" -> "MemorySec"
      [] T = "GlobalSection" -> "GlobalSec"
      [] T = "ExportSection" -> "ExportSec"
      [] T = "StartSection" -> "StartSec"
      [] T = "ElementSection" -> "ElemSec"
      [] T = "CodeSection" -> "CodeSec"
      [] T = "DataSection" -> "DataSec"
      [] T = "ElementSegment" -> "Elem"
      [] T = "DataSegment" -> "Data"
      [] T = "Expression" -> "Expr"
      [] T = "Function" -> "Func"
      [] T = "FunctionType" -> "FuncType"
      [] T = "ImportDescriptor" -> "ImportDesc"
      [] T = "ExportDescriptor" -> "ExportDesc"
      [] T = "Vec<FuncIdx>" -> "VecFuncIdx"
      [] T = "Vec<Expression>" -> "VecExpr"
      [] T = "Vec<u8>" -> "VecByte"
      [] T = "i32" -> "I32"
      [] T = "i64" -> "I64"
      [] T = "f32" -> "F32"
      [] T = "f64" -> "F64"
      [] T = "GlobalTypeMutability" -> "Mut"
      [] T = "LimitsToken" -> "LimitsMaxToken"
      [] T = "ElementSegmentToken" -> "ElemToken"
      [] T = "ElementKind" -> "ElemKind"
      [] T = "DataSegmentToken" -> "DataToken"
      [] T = "FunctionTypeToken" -> "FuncTypeToken"
      [] T = "ImportDescriptorToken" -> "ImportDescToken"
      [] T = "ExportDescriptorToken" -> "ExportDescToken"
      [] OTHER -> T

InitGrammar ==
    /\ pc = "reading" /\ nest = <<>> /\ context = <<>> /\ result = NoResult
    /\ StreamIdle
    /\ last_id = NoId /\ id = NoId /\ len = 0 /\ offset_start = 0
    /\ name = <<>> /\ vec_len = 0 /\ vec = 0 /\ module = <<>> /\ depth = 0
    /\ HistoryIdle /\ LebIdle /\ groups = <<>> /\ decoded = <<>> /\ ExprIdle

grammarUnchanged ==
    <<streamVars, last_id, id, len, offset_start, name, vec_len, vec, module, depth,
      historyVars, lebVars, groups, decoded, exprVars>>

\* with_context up to the call of f: the read T is entered, or refused when
\* the stack is full.
EnterRead ==
    /\ pc = "reading"
    /\ \E T \in GrammarReads(IF nest = <<>> THEN "decode_module" ELSE nest[Len(nest)]) :
          LET pushed == ContextStack_push(context, ContextIdOf(T), pos)
          IN  IF ~pushed.ok
              THEN /\ pc' = "done"
                   /\ result' = Error_ExcessiveParsingDepth(ContextIdOf(T), pos)
                   /\ UNCHANGED <<nest, context>>
              ELSE /\ nest' = Append(nest, T)
                   /\ context' = pushed.stack
                   /\ UNCHANGED <<pc, result>>
    /\ UNCHANGED grammarUnchanged

\* with_context after f returned Ok: context.pop().
ReturnRead ==
    /\ pc = "reading" /\ nest # <<>>
    /\ nest' = SubSeq(nest, 1, Len(nest) - 1)
    /\ context' = ContextStack_pop(context)
    /\ UNCHANGED <<pc, result>>
    /\ UNCHANGED grammarUnchanged

\* with_context after f returned an error: `?` returns it, the frames stay.
FailRead ==
    /\ pc = "reading" /\ nest # <<>>
    /\ pc' = "done"
    /\ result' = Error("Failed")
    /\ UNCHANGED <<nest, context>>
    /\ UNCHANGED grammarUnchanged

NextGrammar == EnterRead \/ ReturnRead \/ FailRead

SpecGrammar == InitGrammar /\ [][NextGrammar]_vars

-----------------------------------------------------------------------------
(* SpecOrd: SectionId::partial_cmp on every pair of section IDs: id is     *)
(* compared with last_id, and the result is kept by the ordering's name.    *)

InitOrd ==
    /\ pc = "compare" /\ id \in SectionIds /\ last_id \in SectionIds
    /\ StreamIdle /\ context = <<>> /\ result = NoResult
    /\ len = 0 /\ offset_start = 0
    /\ name = <<>> /\ vec_len = 0 /\ vec = 0 /\ module = <<>> /\ depth = 0
    /\ HistoryIdle /\ LebIdle /\ UnitIdle

\* id.partial_cmp(&last_id)
Compare ==
    /\ pc = "compare"
    /\ pc' = "done"
    /\ result' = Error(partial_cmp(id, last_id))
    /\ UNCHANGED <<streamVars, context, last_id, id, len, offset_start, name, vec_len, vec,
                   module, depth, historyVars, lebVars, unitVars>>

NextOrd == Compare

SpecOrd == InitOrd /\ [][NextOrd]_vars

-----------------------------------------------------------------------------
(* SpecBuf: a Buffer of up to MaxBufSize bytes under any sequence of        *)
(* read_byte, read_exact and skip_bytes calls. pc is the call last made,    *)
(* len the bytes it asked for, offset_start the offset before it, result    *)
(* what it returned.                                                        *)

\* The longest buffer tried; calls ask for up to one byte more.
MaxBufSize == 4

InitBuf ==
    /\ kind = "buffer" /\ size \in 0..MaxBufSize /\ pos = 0
    /\ pc = "new" /\ context = <<>> /\ result = NoResult
    /\ last_id = NoId /\ id = NoId /\ len = 0 /\ offset_start = 0
    /\ name = <<>> /\ vec_len = 0 /\ vec = 0 /\ module = <<>> /\ depth = 0
    /\ HistoryIdle /\ LebIdle /\ UnitIdle

\* The call `op` asking for `count` bytes returned r.
BufferCall(op, count, r) ==
    /\ pc' = op
    /\ len' = count
    /\ offset_start' = pos
    /\ pos' = r.pos
    /\ result' = IF r.ok THEN Error("Ok") ELSE Error_Storage(r.err)
    /\ UNCHANGED <<kind, size, context, last_id, id, name, vec_len, vec, module, depth,
                   historyVars, lebVars, unitVars>>

BufferReadByte == BufferCall("read_byte", 1, Buffer_read_byte(pos, size))

BufferReadExact ==
    \E count \in 0..(MaxBufSize + 1) :
       BufferCall("read_exact", count, Buffer_read_exact(pos, size, count))

BufferSkipBytes ==
    \E count \in 0..(MaxBufSize + 1) :
       BufferCall("skip_bytes", count, Buffer_skip_bytes(pos, size, count))

NextBuf == BufferReadByte \/ BufferReadExact \/ BufferSkipBytes

SpecBuf == InitBuf /\ [][NextBuf]_vars

-----------------------------------------------------------------------------
(* src/decode/expr.rs: transcode_expression on an expression of its own    *)
(* SpecTrans is decoder.read::<Expression> on every input of MaxTransSize  *)
(* bytes made of the opcodes and operands below. The builder is kept as    *)
(* the items read and whether each was written (slots); how a write lays a *)
(* value out in the builder's data is SpecExpr's.                          *)

\* The length of the inputs tried.
MaxTransSize == 6

Opcode_Loop == 3

Opcode_If == 4

Opcode_Else == 5

Opcode_I32Load == 40

Opcode_MemorySize == 63

Opcode_MemoryGrow == 64

Opcode_BulkPrefix == 252

BulkOpcode_I32TruncSatF32S == 0

BulkOpcode_MemoryInit == 8

BulkOpcode_DataDrop == 9

BulkOpcode_MemoryCopy == 10

BulkOpcode_MemoryFill == 11

\* The opcodes tried where an expression is read on its own, and 0x06, which
\* is no opcode.
ExprOpcodes ==
    {Opcode_Block, Opcode_Loop, Opcode_If, Opcode_Else, Opcode_End, Opcode_I32Load,
     Opcode_MemorySize, Opcode_MemoryGrow, Opcode_BulkPrefix, Opcode_VectorPrefix}

ExprOpcodeInputs == ExprOpcodes \cup {6}

\* The bulk opcodes tried, and 18, which is none.
BulkOpcodes ==
    {BulkOpcode_I32TruncSatF32S, BulkOpcode_MemoryInit, BulkOpcode_DataDrop,
     BulkOpcode_MemoryCopy, BulkOpcode_MemoryFill}

BulkOpcodeSources == {<<b>> : b \in BulkOpcodes \cup {18}} \cup {<<>>}

\* The encodings tried for a u32 operand: 0, 1, and one the input ends under.
OperandU32Sources == {<<0>>, <<1>>, <<>>}

\* The arm of transcode_expression's match an opcode takes, by what is read
\* after the opcode.
OperandsOf(op) ==
    CASE op \in {Opcode_Block, Opcode_If, Opcode_Loop} -> "blocktype"
      [] op = Opcode_I32Load -> "memarg"
      [] op \in {Opcode_MemoryGrow, Opcode_MemorySize} -> "zero_1"
      [] op = Opcode_BulkPrefix -> "bulk"
      [] op = Opcode_VectorPrefix -> "vector"
      [] OTHER -> "none"

\* The arm of transcode_bulk_op's match a bulk opcode takes.
BulkOperandsOf(op) ==
    CASE op = BulkOpcode_DataDrop -> "u32"
      [] op = BulkOpcode_MemoryCopy -> "zero_2"
      [] op = BulkOpcode_MemoryFill -> "zero_1"
      [] op = BulkOpcode_MemoryInit -> "u32_zero"
      [] OTHER -> "none"

\* An expression that ends at its first end, whatever the depth.
ClosesExpression_AnyEnd(op, d) == op = Opcode_End

\* Opcode::End => if depth == 0 { break; }
ClosesExpression(op, d) == op = Opcode_End /\ d = 0

\* depth after the opcode and its operands: depth += 1 for block, loop and
\* if, depth -= 1 for an end that does not close the expression.
DepthAfter(op, d) ==
    IF op \in {Opcode_Block, Opcode_If, Opcode_Loop} THEN d + 1
    ELSE IF op = Opcode_End THEN d - 1
    ELSE d

\* decoder.read_bounded::<BulkOpcode>
read_bounded_BulkOpcode(kd, p, n, ctx) ==
    with_context(ctx, "BulkOpcode", p,
       {IF o.tag = "Ok" /\ o.value \notin BulkOpcodes
        THEN [o EXCEPT !.tag = "InvalidBulkOpcode"] ELSE o
        : o \in read_leb128_raw("u32", BulkOpcodeSources, kd, p, n,
                                ContextStack_push(ctx, "BulkOpcode", p).stack)})

\* decoder.read_bounded::<MemArg>: align, then offset, each a u32.
read_bounded_MemArg(kd, p, n, ctx) ==
    LET pushed == ContextStack_push(ctx, "MemArg", p).stack
    IN  with_context(ctx, "MemArg", p,
          UNION {IF o1.tag # "Ok" THEN {o1}
                 ELSE {IF o2.tag # "Ok" THEN o2
                       ELSE [o2 EXCEPT !.bytes = <<o1.value, o2.value>>]
                       : o2 \in read_bounded_u32_of(OperandU32Sources, kd, o1.pos, n, o1.ctx)}
                 : o1 \in read_bounded_u32_of(OperandU32Sources, kd, p, n, pushed)})

\* An item transcode_expression read at offsets from..to of the input, and
\* whether builder.write was called with it.
Item(ty, value, from, to, written) ==
    [ty |-> ty, value |-> value, from |-> from, to |-> to, written |-> written]

\* The frames the read of an Expression is made under: those of a global's
\* initializer, and none.
ExprContexts ==
    {<<>>,
     <<[id |-> "GlobalSec", offset |-> 0], [id |-> "Global", offset |-> 0]>>}

InitTrans ==
    /\ kind \in StreamKinds /\ size = MaxTransSize /\ pos = 0
    /\ pc = "expr" /\ context \in ExprContexts /\ result = NoResult
    /\ last_id = NoId /\ id = NoId /\ len = 0 /\ offset_start = 0
    /\ name = <<>> /\ vec_len = 0 /\ vec = 0 /\ module = <<>> /\ depth = 0
    /\ HistoryIdle /\ LebIdle /\ UnitIdle

transUnchanged ==
    <<kind, size, last_id, id, len, offset_start, name, vec_len, vec, module,
      visitor, sections, id_read, overread, lebVars, nest, groups, decoded, data>>

\* A read or a write failed: transcode_expression returns the error.
TransFail(o, place) == Fail(o, place) /\ UNCHANGED <<depth, slots>>

\* A read succeeded and was written or dropped; the loop goes on at `next`.
TransGoto(o, next, item) ==
    /\ Goto(o, next)
    /\ slots' = Append(slots, item)

\* One turn of the loop up to the operands: the opcode, builder.write(op),
\* and for an opcode without operands the end of the turn: the end at depth
\* 0 leaves the loop, builder.finalize() is returned and the frame of the
\* Expression is popped.
TranscodeOpcode ==
    /\ pc = "opcode"
    /\ \E o \in read_bounded_u8_enum(kind, pos, size, context, "Opcode",
                                     ExprOpcodeInputs, ExprOpcodes) :
          IF o.tag # "Ok" THEN TransFail(o, "opcode")
          ELSE \E alloc \in BOOLEAN :
             IF ~alloc THEN TransFail(Raised(o, "AllocError"), "opcode")
             ELSE LET item == Item("Opcode", o.value, pos, o.pos, TRUE)
                  IN  IF OperandsOf(o.value) = "vector"
                      THEN /\ Fail(Raised(o, "Abort"), "opcode")
                           /\ slots' = Append(slots, item)
                           /\ depth' = depth
                      ELSE IF OperandsOf(o.value) # "none"
                      THEN TransGoto(o, OperandsOf(o.value), item) /\ depth' = depth
                      ELSE IF ClosesExpression(o.value, depth)
                      THEN /\ pc' = "done"
                           /\ result' = [NoResult EXCEPT !.tag = "Ok"]
                           /\ pos' = o.pos
                           /\ context' = ContextStack_pop(o.ctx)
                           /\ slots' = Append(slots, item)
                           /\ UNCHANGED <<truncated, depth>>
                      ELSE /\ TransGoto(o, "opcode", item)
                           /\ depth' = DepthAfter(o.value, depth)
    /\ UNCHANGED transUnchanged

\* Opcode::Block | Opcode::If | Opcode::Loop: transcode!(BlockType)?; depth += 1.
TranscodeBlockType ==
    /\ pc = "blocktype"
    /\ \E o \in read_bounded_BlockType(kind, pos, size, context) :
          IF o.tag # "Ok" THEN TransFail(o, "blocktype")
          ELSE \E alloc \in BOOLEAN :
             IF ~alloc THEN TransFail(Raised(o, "AllocError"), "blocktype")
             ELSE /\ TransGoto(o, "opcode", Item("BlockType", o.value, pos, o.pos, TRUE))
                  /\ depth' = DepthAfter(slots[Len(slots)].value, depth)
    /\ UNCHANGED transUnchanged

\* transcode!(MemArg)
TranscodeMemArg ==
    /\ pc = "memarg"
    /\ \E o \in read_bounded_MemArg(kind, pos, size, context) :
          IF o.tag # "Ok" THEN TransFail(o, "memarg")
          ELSE \E alloc \in BOOLEAN :
             IF ~alloc THEN TransFail(Raised(o, "AllocError"), "memarg")
             ELSE /\ TransGoto(o, "opcode", Item("MemArg", o.bytes, pos, o.pos, TRUE))
                  /\ depth' = depth
    /\ UNCHANGED transUnchanged

\* decoder.read_zero_byte(context)?: the byte is read and not written. Two
\* of them follow memory.copy.
TranscodeZeroByte ==
    /\ pc \in {"zero_1", "zero_2"}
    /\ \E o \in read_zero_byte(kind, pos, size, context) :
          IF o.tag # "Ok" THEN TransFail(o, pc)
          ELSE /\ TransGoto(o, IF pc = "zero_2" THEN "zero_1" ELSE "opcode",
                            Item("Byte", o.value, pos, o.pos, FALSE))
               /\ depth' = depth
    /\ UNCHANGED transUnchanged

\* transcode_bulk_op up to the operands: the bulk opcode, builder.write.
TranscodeBulkOp ==
    /\ pc = "bulk"
    /\ \E o \in read_bounded_BulkOpcode(kind, pos, size, context) :
          IF o.tag # "Ok" THEN TransFail(o, "bulk")
          ELSE \E alloc \in BOOLEAN :
             IF ~alloc THEN TransFail(Raised(o, "AllocError"), "bulk")
             ELSE /\ TransGoto(o, IF BulkOperandsOf(o.value) = "none" THEN "opcode"
                                  ELSE BulkOperandsOf(o.value),
                               Item("BulkOpcode", o.value, pos, o.pos, TRUE))
                  /\ depth' = depth
    /\ UNCHANGED transUnchanged

\* transcode!(u32), for data.drop and, before its reserved byte, memory.init.
TranscodeU32 ==
    /\ pc \in {"u32", "u32_zero"}
    /\ \E o \in read_bounded_u32_of(OperandU32Sources, kind, pos, size, context) :
          IF o.tag # "Ok" THEN TransFail(o, pc)
          ELSE \E alloc \in BOOLEAN :
             IF ~alloc THEN TransFail(Raised(o, "AllocError"), pc)
             ELSE /\ TransGoto(o, IF pc = "u32_zero" THEN "zero_1" ELSE "opcode",
                               Item("U32", o.value, pos, o.pos, TRUE))
                  /\ depth' = depth
    /\ UNCHANGED transUnchanged

NextTrans ==
    \/ BeginExpression
    \/ TranscodeOpcode
    \/ TranscodeBlockType
    \/ TranscodeMemArg
    \/ TranscodeZeroByte
    \/ TranscodeBulkOp
    \/ TranscodeU32

SpecTrans == InitTrans /\ [][NextTrans]_vars

-----------------------------------------------------------------------------
(* src/validate: prepare_module_for_validation, Validator, validate_module *)
(* A Module is the record of its sections; a vector is a sequence, indexed  *)
(* from 0 in the code and from 1 here. An Expression is left out: it is     *)
(* validated by validate_expression, which returns Ok(()) for all of them.  *)

Limits(min, max) == [min |-> min, max |-> max]

FunctionType(parameters, results) == [parameters |-> parameters, results |-> results]

\* An ImportDescriptor: Function(TypeIdx), Table(TableType), Memory(MemType)
\* or Global(GlobalType). idx and limits are meant for the kinds that have them.
ImportDescriptor(kd, idx, limits) == [kd |-> kd, idx |-> idx, limits |-> limits]

ExportDescriptor(kd, idx) == [kd |-> kd, idx |-> idx]

ExportEntry(field, descriptor) == [field |-> field, descriptor |-> descriptor]

\* An ElementSegment: init is FunctionIndices(funcs) or Expressions, mode is
\* Passive, Declarative or Active with the table index.
ElementSegment(init, funcs, mode, table) ==
    [init |-> init, funcs |-> funcs, mode |-> mode, table |-> table]

\* A DataSegment: mode is Passive or Active with the memory index.
DataSegment(mode, memory) == [mode |-> mode, memory |-> memory]

\* The order ImportDescriptor::discriminant() gives the kinds of import.
ImportDescriptor_discriminant(d) ==
    CASE d.kd = "Function" -> 0
      [] d.kd = "Table" -> 1
      [] d.kd = "Memory" -> 2
      [] d.kd = "Global" -> 3

\* <[u8] as Ord>::cmp(a, b) = Less: the first byte that differs decides, and
\* a proper prefix is less.
RECURSIVE Bytes_lt(_, _)
Bytes_lt(a, b) ==
    IF b = <<>> THEN FALSE
    ELSE IF a = <<>> THEN TRUE
    ELSE IF Head(a) # Head(b) THEN Head(a) < Head(b)
    ELSE Bytes_lt(Tail(a), Tail(b))

\* A sort that leaves the vector as it is.
sort_by_Nothing(s, lt) == s

\* slice::sort_by, a stable sort: lt[<<x, y>>] tells whether x is ordered
\* strictly before y. Each element is put behind every element sorted so far
\* that it is not strictly before.
RECURSIVE sort_by(_, _)
sort_by(s, lt) ==
    IF s = <<>> THEN <<>>
    ELSE LET sorted == sort_by(SubSeq(s, 1, Len(s) - 1), lt)
             x == s[Len(s)]
             behind == {i \in 1..Len(sorted) : ~lt[<<x, sorted[i]>>]}
             k == IF behind = {} THEN 0 ELSE CHOOSE i \in behind : \A j \in behind : j <= i
         IN  SubSeq(sorted, 1, k) \o <<x>> \o SubSeq(sorted, k + 1, Len(sorted))

\* The elements of a sequence.
Elems(s) == {s[i] : i \in 1..Len(s)}

prepare_module_for_validation(m) ==
    [m EXCEPT
       !.importsec = sort_by(m.importsec,
           [p \in Elems(m.importsec) \X Elems(m.importsec) |->
              ImportDescriptor_discriminant(p[1].descriptor)
                < ImportDescriptor_discriminant(p[2].descriptor)]),
       !.exportsec = sort_by(m.exportsec,
           [p \in Elems(m.exportsec) \X Elems(m.exportsec) |->
              Bytes_lt(p[1].field, p[2].field)])]

\* The smallest element of a set of indices, None for Option::None.
FirstOf(S) == IF S = {} THEN None ELSE CHOOSE i \in S : \A j \in S : i <= j

unwrap_or(opt, default) == IF opt = None THEN default ELSE opt

\* Validator::new: the loop stops at the first global import, and remembers
\* the first table import and the first memory import it has passed.
Validator_new(m) ==
    LET kd_at(idx) == m.importsec[idx + 1].descriptor.kd
        indices == 0..(Len(m.importsec) - 1)
        import_globalidx_start == FirstOf({idx \in indices : kd_at(idx) = "Global"})
        visited == {idx \in indices : import_globalidx_start = None \/ idx < import_globalidx_start}
        import_tableidx_start == FirstOf({idx \in visited : kd_at(idx) = "Table"})
        import_memidx_start == FirstOf({idx \in visited : kd_at(idx) = "Memory"})
        import_memidx_end == unwrap_or(import_globalidx_start, Len(m.importsec))
        import_tableidx_end == unwrap_or(import_memidx_start, import_memidx_end)
        import_funcidx_end == unwrap_or(import_tableidx_start, import_tableidx_end)
    IN  [module |-> m,
         import_funcidx_end |-> import_funcidx_end,
         import_tableidx_end |-> import_tableidx_end,
         import_memidx_end |-> import_memidx_end]

\* Validator::data_count, element_count, function_count, global_count,
\* memory_count, table_count, type_count, by the SectionId of the index type.
Validator_count(v, sid) ==
    CASE sid = Data -> Len(v.module.datasec)
      [] sid = Element -> Len(v.module.elemsec)
      [] sid = Function -> Len(v.module.funcsec) + v.import_funcidx_end
      [] sid = Global ->
           Len(v.module.globalsec) + (Len(v.module.importsec) - v.import_memidx_end)
      [] sid = Memory ->
           Len(v.module.memsec) + (v.import_memidx_end - v.import_tableidx_end)
      [] sid = Table ->
           Len(v.module.tablesec) + (v.import_tableidx_end - v.import_funcidx_end)
      [] sid = Type -> Len(v.module.typesec)

\* Result<(), Error>: Ok(()), an Error of src/validate/mod.rs, or the abort
\* of an index out of a vector's bounds or of unreachable!().
ValidOk == [tag |-> "Ok"]

ValidAbort == [tag |-> "Abort"]

Error_IndexOutOfBounds(sid, index, capacity) ==
    [tag |-> "IndexOutOfBounds", id |-> sid, index |-> index, capacity |-> capacity]

\* An index check that lets every index pass.
validate_idx_Unchecked(v, sid, index) == ValidOk

\* impl_validate_for_idx!
validate_idx(v, sid, index) ==
    LET capacity == Validator_count(v, sid)
    IN  IF index >= capacity THEN Error_IndexOutOfBounds(sid, index, capacity) ELSE ValidOk

\* Every result is taken and the last that is not Ok(()) is returned.
RECURSIVE first_error_Last(_)
first_error_Last(rs) ==
    IF rs = <<>> THEN ValidOk
    ELSE IF rs[Len(rs)] # ValidOk THEN rs[Len(rs)]
    ELSE first_error_Last(SubSeq(rs, 1, Len(rs) - 1))

\* The `?` over a sequence of results taken in order: the first that is not
\* Ok(()), or Ok(()). Vec<T>::validate is this over its elements.
RECURSIVE first_error(_)
first_error(rs) ==
    IF rs = <<>> THEN ValidOk
    ELSE IF Head(rs) # ValidOk THEN Head(rs)
    ELSE first_error(Tail(rs))

\* const BOUND: u32 = (u16::MAX as u32) + 1;
BOUND == 65536

\* A MemType check without the bound on min.
MemType_validate_MaxOnly(limits) ==
    IF limits.max # None /\ (limits.min > limits.max \/ limits.max > BOUND)
    THEN [tag |-> "InvalidMemType", limits |-> limits]
    ELSE ValidOk

\* MemType::validate
MemType_validate(limits) ==
    LET max == unwrap_or(limits.max, BOUND)
    IN  IF limits.min > BOUND \/ limits.min > max \/ max > BOUND
        THEN [tag |-> "InvalidMemType", limits |-> limits]
        ELSE ValidOk

\* TableType::validate
TableType_validate(limits) ==
    IF limits.max # None /\ limits.min > limits.max
    THEN [tag |-> "InvalidTableLimits", limits |-> limits]
    ELSE ValidOk

\* Import::validate
Import_validate(v, import) ==
    CASE import.descriptor.kd = "Function" -> validate_idx(v, Type, import.descriptor.idx)
      [] import.descriptor.kd = "Table" -> TableType_validate(import.descriptor.limits)
      [] import.descriptor.kd = "Memory" -> MemType_validate(import.descriptor.limits)
      [] import.descriptor.kd = "Global" -> ValidOk

\* The SectionId of the index type an export descriptor holds.
DescriptorSection(kd) ==
    CASE kd = "Function" -> Function
      [] kd = "Table" -> Table
      [] kd = "Memory" -> Memory
      [] kd = "Global" -> Global

\* Export::validate
Export_validate(v, export) ==
    validate_idx(v, DescriptorSection(export.descriptor.kd), export.descriptor.idx)

\* ExportSection::validate, the loop over adjacent pairs.
DuplicateExportName(exportsec) ==
    LET equal == {idx \in 1..(Len(exportsec) - 1) :
                    exportsec[idx].field = exportsec[idx + 1].field}
    IN  IF equal = {} THEN ValidOk
        ELSE [tag |-> "DuplicateExportName", exportsec_idx |-> FirstOf(equal)]

\* ExportSection::validate
ExportSection_validate(v) ==
    first_error(<<DuplicateExportName(v.module.exportsec)>>
                \o [i \in 1..Len(v.module.exportsec) |->
                      Export_validate(v, v.module.exportsec[i])])

\* A vector indexed out of its bounds panics.
InBounds(idx, s) == 0 <= idx /\ idx < Len(s)

\* Validator::function_signature, with the function_type it ends in: the
\* FunctionType (ok), or the abort of a lookup (~ok).
function_signature(v, funcidx) ==
    LET m == v.module
        aborted == [ok |-> FALSE, ty |-> FunctionType(<<>>, <<>>)]
        function_type(typeidx) ==
          IF InBounds(typeidx, m.typesec)
          THEN [ok |-> TRUE, ty |-> m.typesec[typeidx + 1]]
          ELSE aborted
    IN  IF funcidx < v.import_funcidx_end
        THEN IF ~InBounds(funcidx, m.importsec) THEN aborted
             ELSE IF m.importsec[funcidx + 1].descriptor.kd # "Function" THEN aborted
             ELSE function_type(m.importsec[funcidx + 1].descriptor.idx)
        ELSE IF ~InBounds(funcidx - v.import_funcidx_end, m.funcsec) THEN aborted
             ELSE function_type(m.funcsec[(funcidx - v.import_funcidx_end) + 1])

\* A start-section check that asks nothing of the signature.
StartSection_validate_IndexOnly(v, funcidx) == validate_idx(v, Function, funcidx)

\* StartSection::validate
StartSection_validate(v, funcidx) ==
    IF validate_idx(v, Function, funcidx) # ValidOk THEN validate_idx(v, Function, funcidx)
    ELSE LET func == function_signature(v, funcidx)
         IN  IF ~func.ok THEN ValidAbort
             ELSE IF func.ty.parameters # <<>> \/ func.ty.results # <<>>
             THEN [tag |-> "InvalidStartFunction", funcidx |-> funcidx]
             ELSE ValidOk

\* ElementSegment::validate
ElementSegment_validate(v, segment) ==
    first_error(
        (IF segment.init = "FunctionIndices"
         THEN [i \in 1..Len(segment.funcs) |-> validate_idx(v, Function, segment.funcs[i])]
         ELSE <<>>)
        \o (IF segment.mode = "Active"
            THEN <<validate_idx(v, Table, segment.table)>>
            ELSE <<>>))

\* A code-section check that compares no lengths.
CodeSection_validate_NoParity(v) == ValidOk

\* CodeSection::validate: the lengths, then function_type(typeidx) for each
\* pair the zip gives.
CodeSection_validate(v) ==
    LET funcsec == v.module.funcsec
    IN  IF Len(funcsec) # Len(v.module.codesec)
        THEN [tag |-> "FunctionAndCodeSectionMismatch",
              funcsec_size |-> Len(funcsec), codesec_size |-> Len(v.module.codesec)]
        ELSE first_error([i \in 1..Len(funcsec) |->
                            IF InBounds(funcsec[i], v.module.typesec)
                            THEN ValidOk ELSE ValidAbort])

\* DataSegment::validate
DataSegment_validate(v, segment) ==
    IF segment.mode = "Active" THEN validate_idx(v, Memory, segment.memory) ELSE ValidOk

\* A data-count check that is never made.
DataCount_validate_Skipped(m) == ValidOk

\* validate_module, the check of the data count.
DataCount_validate(m) ==
    IF m.datacountsec # None /\ m.datacountsec # Len(m.datasec)
    THEN [tag |-> "DataCountMismatch",
          expected |-> m.datacountsec, actual |-> Len(m.datasec)]
    ELSE ValidOk

\* validate_module: the result of each step, in the order of the steps.
validate_steps(m) ==
    LET v == Validator_new(m)
    IN  <<first_error([i \in 1..Len(m.importsec) |-> Import_validate(v, m.importsec[i])]),
          first_error([i \in 1..Len(m.funcsec) |-> validate_idx(v, Type, m.funcsec[i])]),
          first_error([i \in 1..Len(m.tablesec) |-> TableType_validate(m.tablesec[i])]),
          first_error([i \in 1..Len(m.memsec) |-> MemType_validate(m.memsec[i])]),
          ValidOk,
          ExportSection_validate(v),
          IF m.startsec # None THEN StartSection_validate(v, m.startsec) ELSE ValidOk,
          first_error([i \in 1..Len(m.elemsec) |-> ElementSegment_validate(v, m.elemsec[i])]),
          CodeSection_validate(v),
          first_error([i \in 1..Len(m.datasec) |-> DataSegment_validate(v, m.datasec[i])]),
          DataCount_validate(m)>>

validate_module(m) == first_error(validate_steps(m))

-----------------------------------------------------------------------------
(* SpecVal: modules of up to MaxEntries entries, prepared and validated    *)

\* The most entries a module tried has, over all its sections.
MaxEntries == 4

\* Module before any section is decoded (decode_module's locals).
EmptyModule ==
    [typesec |-> <<>>, importsec |-> <<>>, funcsec |-> <<>>, tablesec |-> <<>>,
     memsec |-> <<>>, globalsec |-> <<>>, exportsec |-> <<>>, startsec |-> None,
     elemsec |-> <<>>, datacountsec |-> None, codesec |-> <<>>, datasec |-> <<>>]

\* The vector sections of a Module.
VecFields ==
    {"typesec", "importsec", "funcsec", "tablesec", "memsec", "globalsec", "exportsec",
     "elemsec", "codesec", "datasec"}

\* The export names tried: "a", "aa" and "f".
ExportNames == {<<97>>, <<97, 97>>, <<102>>}

\* The entries tried for each vector section.
SectionEntries(field) ==
    CASE field = "typesec" ->
           {FunctionType(<<>>, <<>>), FunctionType(<<ValType_I32>>, <<>>),
            FunctionType(<<>>, <<ValType_I32>>)}
      [] field = "importsec" ->
           {[descriptor |-> ImportDescriptor("Function", t, Limits(0, None))] : t \in {0, 1}}
           \cup {[descriptor |-> ImportDescriptor(k, 0, Limits(0, None))] :
                   k \in {"Table", "Memory", "Global"}}
      [] field = "funcsec" -> {0, 1}
      [] field = "tablesec" -> {Limits(0, None), Limits(1, 0)}
      [] field = "memsec" -> {Limits(BOUND, None), Limits(BOUND + 1, None)}
      [] field = "globalsec" -> {[ty |-> ValType_I32]}
      [] field = "exportsec" ->
           {ExportEntry(n, ExportDescriptor("Function", i)) : n \in ExportNames, i \in {0, 1}}
           \cup {ExportEntry(<<97>>, ExportDescriptor(k, 0)) : k \in {"Table", "Memory", "Global"}}
      [] field = "elemsec" ->
           {ElementSegment("FunctionIndices", <<i>>, "Passive", 0) : i \in {0, 1}}
           \cup {ElementSegment("Expressions", <<>>, "Active", 0)}
      [] field = "codesec" -> {[locals |-> <<>>]}
      [] field = "datasec" ->
           {DataSegment("Passive", 0), DataSegment("Active", 0)}

\* The function indices tried for the start section, the counts tried for
\* the data count section.
ScalarEntries(field) == IF field = "startsec" THEN {0, 1} ELSE {1, 2}

\* The entries a module holds.
Entries(m) ==
    Len(m.typesec) + Len(m.importsec) + Len(m.funcsec) + Len(m.tablesec) + Len(m.memsec)
    + Len(m.globalsec) + Len(m.exportsec) + Len(m.elemsec) + Len(m.codesec)
    + Len(m.datasec)
    + (IF m.startsec = None THEN 0 ELSE 1) + (IF m.datacountsec = None THEN 0 ELSE 1)

InitVal ==
    /\ pc = "decoding" /\ module = EmptyModule /\ result = NoResult
    /\ StreamIdle /\ context = <<>>
    /\ last_id = NoId /\ id = NoId /\ len = 0 /\ offset_start = 0
    /\ name = <<>> /\ vec_len = 0 /\ vec = 0 /\ depth = 0
    /\ HistoryIdle /\ LebIdle /\ UnitIdle

valUnchanged ==
    <<streamVars, context, last_id, id, len, offset_start, name, vec_len, vec, depth,
      historyVars, lebVars, nest, groups, exprVars>>

\* The decoder takes one more entry into a vector section.
DecodeEntry ==
    /\ pc = "decoding" /\ Entries(module) < MaxEntries
    /\ \E field \in VecFields : \E e \in SectionEntries(field) :
          module' = [module EXCEPT ![field] = Append(@, e)]
    /\ UNCHANGED <<pc, result, decoded>>
    /\ UNCHANGED valUnchanged

\* The decoder reads the start section or the data count section.
DecodeScalar ==
    /\ pc = "decoding" /\ Entries(module) < MaxEntries
    /\ \E field \in {"startsec", "datacountsec"} : \E e \in ScalarEntries(field) :
          /\ module[field] = None
          /\ module' = [module EXCEPT ![field] = e]
    /\ UNCHANGED <<pc, result, decoded>>
    /\ UNCHANGED valUnchanged

\* The end of Module::decode: prepare_module_for_validation.
Prepare ==
    /\ pc = "decoding"
    /\ pc' = "prepared"
    /\ module' = prepare_module_for_validation(module)
    /\ decoded' = module
    /\ UNCHANGED result
    /\ UNCHANGED valUnchanged

\* Module::validate: validate_module.
Validate ==
    /\ pc = "prepared"
    /\ pc' = "done"
    /\ result' = validate_module(module)
    /\ UNCHANGED <<module, decoded>>
    /\ UNCHANGED valUnchanged

NextVal == DecodeEntry \/ DecodeScalar \/ Prepare \/ Validate

SpecVal == InitVal /\ [][NextVal]_vars

-----------------------------------------------------------------------------
(* SpecMem: validate_module on the modules whose one entry is a memory,    *)
(* defined or imported, for every Limits of MemMins and MemMaxes           *)

\* The values tried for min, and with None (no max) for max.
MemMins == {0, 1, 65535, 65536, 65537, 2147483647}

MemMaxes == MemMins \cup {None}

InitMem ==
    /\ pc = "prepared" /\ result = NoResult
    /\ \E min \in MemMins, max \in MemMaxes :
          \/ module = [EmptyModule EXCEPT !.memsec = <<Limits(min, max)>>]
          \/ module = [EmptyModule EXCEPT
                         !.importsec = <<[descriptor |->
                                            ImportDescriptor("Memory", 0, Limits(min, max))]>>]
    /\ decoded = module
    /\ StreamIdle /\ context = <<>>
    /\ last_id = NoId /\ id = NoId /\ len = 0 /\ offset_start = 0
    /\ name = <<>> /\ vec_len = 0 /\ vec = 0 /\ depth = 0
    /\ HistoryIdle /\ LebIdle /\ nest = <<>> /\ groups = <<>> /\ ExprIdle

NextMem == Validate

SpecMem == InitMem /\ [][NextMem]_vars

-----------------------------------------------------------------------------
(* src/decode/expr.rs: ExpressionBuilder and Transcodable::write_to         *)
(* A fixed-size operand is written as the size_of::<T>() bytes of its       *)
(* repr(C) value at an offset of align_of::<T>(). The builder's data is the *)
(* sequence of its bytes, data[i + 1] the byte at offset i.                 *)

\* Bound on the writes into one builder.
MaxWrites == 4

\* size_of and align_of of a type written into an Expression.
Layout(size_of, align_of) == [size |-> size_of, align |-> align_of]

\* The layouts of the types transcode_expression writes: Opcode, RefType and
\* ValType (repr(u8)); u32, i32, f32, LabelIdx and BulkOpcode (repr(u32));
\* BlockType, MemArg, CallIndirectOperands, TableCopyOperands and
\* TableInitOperands (repr(C), two 32-bit fields); i64 and f64.
OperandLayouts == {Layout(1, 1), Layout(4, 4), Layout(8, 4), Layout(8, 8)}

\* The values written: all bytes 0 or all bytes 0xFF.
OperandValues(layout) == {[i \in 1..layout.size |-> b] : b \in {0, 255}}

\* A next_multiple_of that leaves n where it is.
next_multiple_of_Unaligned(n, a) == n

\* usize::next_multiple_of.
next_multiple_of(n, a) == IF n % a = 0 THEN n ELSE n + (a - (n % a))

\* Vec<u8>::resize(new_len, value) on a vector no longer than new_len.
Bytes_resize(bytes, new_len, value) ==
    [i \in 1..new_len |-> IF i <= Len(bytes) THEN bytes[i] ELSE value]

\* <T as Transcodable>::write_to: pad with zeroes up to the aligned
\* position, write the value there, set the length behind it. alloc is
\* whether try_reserve_exact succeeds; on failure the data is as it was.
write_to(bytes, layout, value, alloc) ==
    LET from == Len(bytes)
        aligned_pos == next_multiple_of(from, layout.align)
        padding == aligned_pos - from
        padded == IF padding > 0 THEN Bytes_resize(bytes, from + padding, 0) ELSE bytes
    IN  IF ~alloc THEN [ok |-> FALSE, data |-> bytes]
        ELSE [ok |-> TRUE,
              data |-> [i \in 1..(aligned_pos + layout.size) |->
                          IF i > aligned_pos THEN value[i - aligned_pos] ELSE padded[i]]]

(* SpecExpr: every sequence of up to MaxWrites writes into a new          *)
(* ExpressionBuilder, each of a value of one of OperandLayouts, then       *)
(* finalize().                                                             *)

\* ExpressionBuilder::new.
InitExpr ==
    /\ pc = "writing" /\ result = NoResult /\ data = <<>> /\ slots = <<>>
    /\ StreamIdle /\ context = <<>>
    /\ last_id = NoId /\ id = NoId /\ len = 0 /\ offset_start = 0
    /\ name = <<>> /\ vec_len = 0 /\ vec = 0 /\ module = <<>> /\ depth = 0
    /\ HistoryIdle /\ LebIdle /\ nest = <<>> /\ groups = <<>> /\ decoded = <<>>

exprUnchanged ==
    <<streamVars, context, last_id, id, len, offset_start, name, vec_len, vec, module,
      depth, historyVars, lebVars, nest, groups, decoded>>

\* builder.write(value)?
Write ==
    /\ pc = "writing" /\ Len(slots) < MaxWrites
    /\ \E layout \in OperandLayouts, alloc \in BOOLEAN :
       \E value \in OperandValues(layout) :
          LET w == write_to(data, layout, value, alloc)
          IN  /\ data' = w.data
              /\ IF w.ok
                 THEN /\ slots' = Append(slots, [from |-> Len(data), to |-> Len(w.data),
                                                 layout |-> layout, value |-> value])
                      /\ UNCHANGED <<pc, result>>
                 ELSE /\ pc' = "done"
                      /\ result' = Error("AllocError")
                      /\ UNCHANGED slots
    /\ UNCHANGED exprUnchanged

\* builder.finalize(): the Expression is the data.
Finalize ==
    /\ pc = "writing"
    /\ pc' = "done"
    /\ result' = [NoResult EXCEPT !.tag = "Ok"]
    /\ UNCHANGED <<data, slots>>
    /\ UNCHANGED exprUnchanged

NextExpr == Write \/ Finalize

SpecExpr == InitExpr /\ [][NextExpr]_vars

-----------------------------------------------------------------------------
(* Properties of decode_module (Spec) *)

\* The logical order of the non-custom sections.
LogicalOrder ==
    <<Type, Import, Function, Table, Memory, Global, Export, Start, Element,
      DataCount, Code, Data>>

Rank(sid) == CHOOSE i \in 1..Len(LogicalOrder) : LogicalOrder[i] = sid

IsNonCustom(s) == s.id # Custom

IsCustom(s) == s.id = Custom

\* The IDs read so far, in order; and those of the non-custom sections.
SectionIdsRead == [i \in 1..Len(sections) |-> sections[i].id]

NonCustomIdsRead ==
    LET nc == SelectSeq(sections, IsNonCustom)
    IN  [i \in 1..Len(nc) |-> nc[i].id]

Accepted == result.tag = "Ok"

Rejected == result.tag \notin {"none", "Ok"}

OrderRejected == result.tag \in {"OutOfOrderSection", "DuplicateSection"}

\* The ordering check on the sections decode_module read: an accepted run
\* read non-custom IDs strictly increasing in the logical order; a non-custom
\* ID whose rank is not above that of an earlier one ends the run with an
\* error; and the order is refused only then, so that DataCount, Code, Data
\* is not refused and Code, DataCount is.
SectionsReadInLogicalOrder ==
    LET ids == NonCustomIdsRead
    IN  /\ Accepted =>
             \A i, j \in 1..Len(ids) : i < j => Rank(ids[i]) < Rank(ids[j])
        /\ (\E i, j \in 1..Len(ids) : i < j /\ Rank(ids[j]) <= Rank(ids[i])) => Rejected
        /\ OrderRejected =>
             /\ Len(ids) >= 2
             /\ Rank(ids[Len(ids)]) <= Rank(ids[Len(ids) - 1])
        /\ (Len(ids) >= 2 /\ ids[Len(ids) - 1] = Code /\ ids[Len(ids)] = DataCount)
             => OrderRejected

\* The section that follows the last section read, when the decoder took its
\* first bytes for the name of the last one: its ID and declared length are
\* the first two bytes beyond that section's declared end, and its body lies
\* within the input.
SectionsNotRead ==
    IF /\ Len(overread) >= 2
       /\ overread[1] \in SectionIds
       /\ overread[2] < 128
       /\ offset_start + len + 2 + overread[2] <= size
    THEN <<overread[1]>>
    ELSE <<>>

IsNonCustomId(sid) == sid # Custom

\* The IDs of the non-custom sections the input holds, in order.
NonCustomIdsOfInput == NonCustomIdsRead \o SelectSeq(SectionsNotRead, IsNonCustomId)

\* C1: in every accepted module the non-custom section IDs are strictly
\* increasing in the logical order (Type .. Element, DataCount, Code, Data):
\* a module in which a non-custom section follows, custom sections between
\* them or not, one whose rank is not strictly lower is refused; DataCount,
\* Code, Data is accepted and Code, DataCount is refused.
C1_NonCustomSectionsInLogicalOrder ==
    /\ SectionsReadInLogicalOrder
    /\ Accepted =>
         LET ids == NonCustomIdsOfInput
         IN  \A i, j \in 1..Len(ids) : i < j => Rank(ids[i]) < Rank(ids[j])

\* DataCount, Code, Data, accepted.
DataCountCodeDataAccepted ==
    /\ Accepted
    /\ NonCustomIdsRead = <<DataCount, Code, Data>>

\* C2: a module is accepted only if the body of every section consumed
\* exactly the section's declared length.
C2_SectionLengthEnforced ==
    Accepted => \A i \in 1..Len(sections) : sections[i].actual = sections[i].len

\* C3: a non-custom ID equal to the last non-custom ID is refused with
\* DuplicateSection(id), and OutOfOrderSection is returned only for an ID
\* strictly lower than the last one in the logical order.
C3_DuplicateSectionReported ==
    LET ids == NonCustomIdsRead
    IN  /\ (Len(ids) >= 2 /\ ids[Len(ids)] = ids[Len(ids) - 1])
             => result = Error_DuplicateSection(ids[Len(ids)])
        /\ result.tag = "OutOfOrderSection"
             => Rank(result.after) < Rank(result.before)

\* The errors that are the end of the input.
EofErrors == {"MemoryEof", "UnexpectedEof"}

\* C4: when the read of a section ID fails with an end-of-input error,
\* decode_module returns a Module whose slots hold what the sections read so
\* far decoded to, every other slot being empty (a vector) or absent (start,
\* data count); so the 8-byte input of a valid magic and version gives the
\* module with every slot empty or absent. When the read fails with another
\* storage error, Storage(err) is returned.
C4_EofAtSectionBoundary ==
    /\ (id_read.tag = "Storage" /\ id_read.err \in EofErrors) =>
         /\ Accepted
         /\ module.version = 1
         /\ \A sid \in SectionIds \ {Custom} :
               IF \E i \in 1..Len(sections) : sections[i].id = sid
               THEN \E i \in 1..Len(sections) :
                       sections[i].id = sid /\ module.secs[sid] = sections[i].content
               ELSE module.secs[sid] = IF sid \in {Start, DataCount} THEN None ELSE 0
         /\ size = 8 => sections = <<>>
    /\ (id_read.tag = "Storage" /\ id_read.err \notin EofErrors) =>
         result = Error_Storage(id_read.err)

\* C4's case: the input is the eight bytes of a valid magic and version, and
\* the module with every section empty or absent is returned.
C4_Witness ==
    /\ size = 8 /\ pos = 8
    /\ Accepted
    /\ id_read.err \in EofErrors
    /\ module.version = 1
    /\ \A sid \in SectionIds \ {Custom} :
          module.secs[sid] = IF sid \in {Start, DataCount} THEN None ELSE 0

\* C5: when the decoder asks for bytes beyond the end of the input anywhere
\* but at the read of a section ID, decoding ends with Storage(err), err an
\* end-of-input error.
C5_EofInsideIsStorageError ==
    (pc = "done" /\ truncated \notin {"none", "section_id"}) =>
        (result.tag = "Storage" /\ result.err \in EofErrors)

\* The last non-custom ID read, None-like NoId if there is none.
LastNonCustomId ==
    LET ids == NonCustomIdsRead
    IN  IF Len(ids) = 0 THEN NoId ELSE ids[Len(ids)]

\* C7 (states): unless the order was just refused, last_id is the ID of the
\* last non-custom section, whatever custom sections came after it; and no
\* custom section is refused for the order.
C7_LastIdIsLastNonCustom ==
    /\ ~OrderRejected => last_id = LastNonCustomId
    /\ OrderRejected => sections[Len(sections)].id # Custom

\* C7: a custom section may stand anywhere and leaves the ordering check as
\* it was: last_id is the ID of the last non-custom section in every state,
\* and no step that reads a custom section's ID, name or payload changes it.
C7_CustomSectionsLeaveOrderingAlone ==
    /\ []C7_LastIdIsLastNonCustom
    /\ [][((pc = "section_id" /\ pc' = "section_len" /\ id' = Custom)
           \/ (pc \in {"section_len", "section_body", "custom_payload"} /\ id = Custom))
          => last_id' = last_id]_vars

\* C7's case: custom sections before Type and after it, the last one read
\* to its end, and the module accepted.
C7_Witness ==
    /\ Accepted
    /\ SectionIdsRead = <<Custom, Type, Custom>>
    /\ last_id = Type
    /\ id_read.err \in EofErrors

IsShouldVisit(c) == c.call = "should_visit"

\* C8: for an accepted module, should_visit was called once per custom
\* section, in order, with the section's name; visit was called right after
\* each should_visit that answered true and not otherwise, with the same name
\* and with the L - name_len bytes that follow the name.
C8_VisitorCalledPerCustomSection ==
    Accepted =>
      LET customs == SelectSeq(sections, IsCustom)
          asked   == SelectSeq(visitor, IsShouldVisit)
      IN  /\ Len(asked) = Len(customs)
          /\ \A i \in 1..Len(asked) : asked[i].name = customs[i].name
          /\ \A k \in 1..Len(visitor) :
                /\ (visitor[k].call = "should_visit" /\ visitor[k].answer)
                     => (k < Len(visitor) /\ visitor[k + 1].call = "visit")
                /\ visitor[k].call = "visit"
                     => /\ k > 1
                        /\ visitor[k - 1] = VisitorCall("should_visit", visitor[k].name, 0, TRUE)
                        /\ LET n == Len(SelectSeq(SubSeq(visitor, 1, k), IsShouldVisit))
                           IN  /\ n <= Len(customs)
                               /\ visitor[k].name = customs[n].name
                               /\ visitor[k].count = customs[n].len - customs[n].content

-----------------------------------------------------------------------------
(* Properties of Function::decode (SpecFunc) *)

\* C6: decoding ends by returning a value, a Function or an Error; no input
\* takes it to an abort (todo!(), a failed expect()).
C6_NoAbort == result.tag # "Abort"

-----------------------------------------------------------------------------
(* Properties of leb128::read (SpecLeb) *)

\* The bytes read() was given: the first `requested` bytes of the source.
LebConsumed == SubSeq(lebSrc, 1, lebOut.requested)

\* Bit i of the integer an encoding denotes: the 7-bit groups concatenated
\* little-endian, continued above the last group by bit 6 of the last byte
\* when T is signed and by 0 when it is not.
EncBit(bs, signed, i) ==
    IF i < 7 * Len(bs)
    THEN (i % 7) \in ByteBits(bs[(i \div 7) + 1])
    ELSE signed /\ 6 \in ByteBits(bs[Len(bs)])

\* The byte sources 0x80 ... 0x80 0x00 and 0xFF ... 0xFF 0x7F.
IsPadded(bs, pad, last) ==
    /\ Len(bs) >= 1
    /\ bs[Len(bs)] = last
    /\ \A i \in 1..(Len(bs) - 1) : bs[i] = pad

\* The number of bytes an encoding of T may take.
LebMaxBytes(T) == IF T = "i64" THEN 10 ELSE 5

LebOk(v, n) == [tag |-> "Ok", value |-> v, requested |-> n]

\* C9: whenever read accepts, the value is the integer the encoding denotes
\* (every bit of the result is the encoding's bit, and the encoding's bits
\* beyond T's width repeat the result's sign, or are 0 for u32); padded
\* encodings of 0 and -1 up to the length cap decode to 0 and -1, and the
\* boundary values of u32, i32 and i64 decode exactly.
C9_LebDecodesDenotedValue ==
    /\ lebOut.tag = "Ok" =>
         LET bs == LebConsumed
             W  == MAX_BITS(lebT)
             sg == IS_SIGNED(lebT)
         IN  /\ \A i \in 0..(W - 1) : (i \in lebOut.value) <=> EncBit(bs, sg, i)
             /\ \A i \in W..(7 * Len(bs) - 1) :
                    EncBit(bs, sg, i) <=> (sg /\ (W - 1) \in lebOut.value)
    /\ lebOut.tag # "none" =>
         /\ IsPadded(lebSrc, 128, 0) /\ Len(lebSrc) <= LebMaxBytes(lebT)
              => lebOut = LebOk({}, Len(lebSrc))
         /\ IsPadded(lebSrc, 255, 127) /\ Len(lebSrc) <= LebMaxBytes(lebT) /\ IS_SIGNED(lebT)
              => lebOut = LebOk(0..(MAX_BITS(lebT) - 1), Len(lebSrc))
         /\ lebT = "u32" /\ lebSrc = <<255, 255, 255, 255, 15>> => lebOut = LebOk(0..31, 5)
         /\ lebT = "i32" /\ lebSrc = <<128, 128, 128, 128, 120>> => lebOut = LebOk({31}, 5)
         /\ lebT = "i32" /\ lebSrc = <<255, 255, 255, 255, 7>> => lebOut = LebOk(0..30, 5)
         /\ lebT = "i64" /\ lebSrc = <<128, 128, 128, 128, 128, 128, 128, 128, 128, 127>>
              => lebOut = LebOk({63}, 10)
         /\ lebT = "i64" /\ lebSrc = <<255, 255, 255, 255, 255, 255, 255, 255, 255, 0>>
              => lebOut = LebOk(0..62, 10)

\* C9's case: -1 as i64 in the longest encoding allowed, ten bytes, decoded.
C9_Witness ==
    /\ lebT = "i64"
    /\ lebSrc = <<255, 255, 255, 255, 255, 255, 255, 255, 255, 127>>
    /\ lebOut = LebOk(0..63, 10)

HasContinuation(b) == 7 \in ByteBits(b)

\* C10: read requests at most 5 bytes for u32 and i32 and at most 10 for i64;
\* when the 5th (10th) byte still has the continuation bit set the result is
\* InvalidLeb128 and exactly that many bytes were requested; when the source
\* ends before a byte without continuation bit (and before the cap), the
\* source's error is the result.
C10_LebLengthCap ==
    lebOut.tag # "none" =>
      LET cap == LebMaxBytes(lebT)
      IN  /\ lebOut.requested <= cap
          /\ (Len(lebSrc) >= cap /\ \A i \in 1..cap : HasContinuation(lebSrc[i]))
               => lebOut = [tag |-> "InvalidLeb128", requested |-> cap]
          /\ (Len(lebSrc) < cap /\ \A i \in 1..Len(lebSrc) : HasContinuation(lebSrc[i]))
               => lebOut = [tag |-> "SourceError", requested |-> Len(lebSrc) + 1]

\* C10's case: a u32 source of six continuation bytes, refused after five.
C10_Witness ==
    /\ lebT = "u32"
    /\ lebSrc = <<128, 128, 128, 128, 128, 128>>
    /\ lebOut = [tag |-> "InvalidLeb128", requested |-> 5]

\* The bits of T left for the last byte an encoding may have: 4 of 32 after
\* four bytes, 1 of 64 after nine.
LebRemainingBits(T) == MAX_BITS(T) - 7 * (LebMaxBytes(T) - 1)

\* What the last byte's 7 content bits must look like: nothing at or above
\* the remaining width for u32; for the signed types every bit from the sign
\* bit (bit remaining - 1) upwards equal to the sign bit.
LebLastContentFits(T, b) ==
    LET rem == LebRemainingBits(T)
        high == {i \in 0..6 : i >= rem}
    IN  IF IS_SIGNED(T)
        THEN \A i \in high : (i \in ByteBits(b)) <=> ((rem - 1) \in ByteBits(b))
        ELSE \A i \in high : i \notin ByteBits(b)

\* C11: the byte read when fewer than 7 bits of T remain (the 5th for u32 and
\* i32, the 10th for i64) is accepted only if its content bits beyond the
\* remaining width are all 0 (u32) or all equal to the sign bit (i32, i64);
\* otherwise the result is InvalidLeb128.  So a u32 5th byte has content below
\* 0x10, an i32 5th byte has bits 0x78 all clear or all set, and an i64 10th
\* byte has content 0x00 or 0x7F.
C11_LastByteUnusedBits ==
    lebOut.tag # "none" =>
      LET cap == LebMaxBytes(lebT)
      IN  /\ (Len(lebSrc) >= cap /\ \A i \in 1..(cap - 1) : HasContinuation(lebSrc[i])) =>
               LET b == lebSrc[cap]
                   content == b % 128
               IN  /\ ~LebLastContentFits(lebT, b)
                        => lebOut = [tag |-> "InvalidLeb128", requested |-> cap]
                   /\ LebLastContentFits(lebT, b) /\ ~HasContinuation(b)
                        => lebOut.tag = "Ok" /\ lebOut.requested = cap
                   /\ lebT = "u32" => (LebLastContentFits(lebT, b) <=> content < 16)
                   /\ lebT = "i32" => (LebLastContentFits(lebT, b) <=> (content \div 8) \in {0, 15})
                   /\ lebT = "i64" => (LebLastContentFits(lebT, b) <=> content \in {0, 127})
          /\ lebT = "u32" /\ lebSrc = <<255, 255, 255, 255, 31>>
               => lebOut = [tag |-> "InvalidLeb128", requested |-> 5]
          /\ lebT = "u32" /\ lebSrc = <<255, 255, 255, 255, 15>> => lebOut = LebOk(0..31, 5)

\* C11's case: an i32 whose 5th byte sets the sign bit but not the bits above
\* it, refused.
C11_Witness ==
    /\ lebT = "i32"
    /\ lebSrc = <<255, 255, 255, 255, 15>>
    /\ lebOut = [tag |-> "InvalidLeb128", requested |-> 5]

-----------------------------------------------------------------------------
(* Properties of Decoder::with_context (SpecCtx) *)

\* The ContextId of the k-th read of the nested read: those of `nest`, then
\* the Byte of read_zero_byte.
NestId(k) == IF k <= Len(nest) THEN nest[k] ELSE "Byte"

\* C12: the context stack never holds more than 6 frames; a read attempted
\* while 6 frames are active fails with ExcessiveParsingDepth naming the
\* context being entered and the stream offset, and it pushes no frame and
\* consumes no input (the six frames entered before it stay as they were and
\* the stream is where it was); with fewer frames active no read fails so.
C12_ContextDepthBounded ==
    /\ Len(context) <= 6
    /\ pc = "done" /\ Len(nest) >= 6 =>
         /\ result = Error_ExcessiveParsingDepth(NestId(7), pos)
         /\ Len(context) = 6
         /\ \A k \in 1..6 : context[k] = [id |-> NestId(k), offset |-> pos]
    /\ pc = "done" /\ Len(nest) < 6 => result.tag # "ExcessiveParsingDepth"

\* C12's case: read_zero_byte attempted inside six nested reads, at offset 1
\* of a two-byte input.
C12_Witness ==
    /\ pc = "done" /\ Len(nest) = 6 /\ size = 2 /\ pos = 1
    /\ result = Error_ExcessiveParsingDepth("Byte", 1)

-----------------------------------------------------------------------------
(* Properties of Locals::decode (SpecFunc) *)

\* The number of locals the first k groups declare.
RECURSIVE GroupsTotal(_)
GroupsTotal(k) == IF k = 0 THEN 0 ELSE GroupsTotal(k - 1) + groups[k].count

\* The group that slot i (from 1) of the locals belongs to: the first group
\* whose running total reaches i.
GroupOfSlot(i) == CHOOSE k \in 1..Len(groups) : GroupsTotal(k - 1) < i /\ i <= GroupsTotal(k)

\* Slot i (from 1) of the Vec<Local> held as runs.
RECURSIVE Vec_at(_, _)
Vec_at(runs, i) == IF i <= Head(runs).n THEN Head(runs).v ELSE Vec_at(Tail(runs), i - Head(runs).n)

\* Every group read so far was taken into the locals.
LocalsHoldGroups ==
    /\ Vec_len(vec) = GroupsTotal(Len(groups))
    /\ \A i \in 1..Vec_len(vec) :
          Vec_at(vec, i) = [variant |-> groups[GroupOfSlot(i)].ty, value |-> 0]

\* C13: the locals are accepted iff the running total stays at or below 2000
\* after every group: the first group that takes it above is answered with
\* TooManyLocals(subtotal), and no other group is; while decoding goes on,
\* and when the locals are complete, the list holds for each group, in
\* order, `count` consecutive zero-valued slots of its type, so its length
\* is the sum of the counts.
C13_LocalsCap ==
    LET k == Len(groups)
    IN  /\ k > 0 /\ GroupsTotal(k) > 2000 =>
             /\ result = Error_TooManyLocals(GroupsTotal(k))
             /\ GroupsTotal(k - 1) <= 2000
        /\ result.tag = "TooManyLocals" => k > 0 /\ GroupsTotal(k) > 2000
        /\ pc # "done" => LocalsHoldGroups /\ Vec_len(vec) <= 2000
        /\ pc = "expr" => LocalsHoldGroups

\* C13's case: exactly 2000 locals in two groups, 1999 of i32 and one of
\* i64, accepted.
C13_Witness ==
    /\ pc = "expr"
    /\ groups = <<[count |-> 1999, ty |-> ValType_I32], [count |-> 1, ty |-> ValType_I64]>>
    /\ vec = <<[n |-> 1999, v |-> Local_value(ValType_I32)], [n |-> 1, v |-> Local_value(ValType_I64)]>>

\* 2001 locals in one group, refused.
LocalsRefusedAt2001 ==
    /\ groups = <<[count |-> 2001, ty |-> ValType_I32]>>
    /\ result = Error_TooManyLocals(2001)

-----------------------------------------------------------------------------
(* Properties of validate_module (SpecVal, SpecMem) *)

\* validate_module has returned.
Validated == pc = "done"

\* The first k steps of validate_module (imports, functions, tables,
\* memories, globals, exports, start, elements, code, data) have passed.
StepsPass(k) == first_error(SubSeq(validate_steps(module), 1, k)) = ValidOk

\* The imports of a kind, counted without the Validator's boundaries.
ImportsOfKind(k) ==
    Cardinality({i \in 1..Len(module.importsec) : module.importsec[i].descriptor.kd = k})

\* The number of functions, tables, memories, globals and types of the
\* module: the imports of the kind plus the length of the section.
CountOfKind(sid) ==
    CASE sid = Function -> ImportsOfKind("Function") + Len(module.funcsec)
      [] sid = Table -> ImportsOfKind("Table") + Len(module.tablesec)
      [] sid = Memory -> ImportsOfKind("Memory") + Len(module.memsec)
      [] sid = Global -> ImportsOfKind("Global") + Len(module.globalsec)
      [] sid = Type -> Len(module.typesec)

\* The typed indices of the module that validation is to check, each with
\* the SectionId of its kind.
TypedIndices ==
    {<<Type, module.importsec[i].descriptor.idx>> :
        i \in {j \in 1..Len(module.importsec) : module.importsec[j].descriptor.kd = "Function"}}
    \cup {<<Type, module.funcsec[i]>> : i \in 1..Len(module.funcsec)}
    \cup {<<DescriptorSection(module.exportsec[i].descriptor.kd),
            module.exportsec[i].descriptor.idx>> : i \in 1..Len(module.exportsec)}
    \cup (IF module.startsec = None THEN {} ELSE {<<Function, module.startsec>>})
    \cup UNION {{<<Function, module.elemsec[i].funcs[j]>> :
                   j \in 1..Len(module.elemsec[i].funcs)} : i \in 1..Len(module.elemsec)}
    \cup {<<Table, module.elemsec[i].table>> :
            i \in {j \in 1..Len(module.elemsec) : module.elemsec[j].mode = "Active"}}
    \cup {<<Memory, module.datasec[i].memory>> :
            i \in {j \in 1..Len(module.datasec) : module.datasec[j].mode = "Active"}}

\* C14: when validation succeeds every typed index is below the count of its
\* kind: the TypeIdx of function imports and of function-section entries
\* below the number of types; export descriptor indices, the start FuncIdx,
\* the FuncIdx lists of element segments, the TableIdx of active element
\* segments and the MemIdx of active data segments below the imports of the
\* kind plus the length of the section. An IndexOutOfBounds names an index
\* of the module that is not below the count of its kind, and that count.
C14_IndicesInRange ==
    Validated =>
      /\ result = ValidOk => \A ti \in TypedIndices : ti[2] < CountOfKind(ti[1])
      /\ result.tag = "IndexOutOfBounds" =>
           /\ <<result.id, result.index>> \in TypedIndices
           /\ result.capacity = CountOfKind(result.id)
           /\ result.index >= result.capacity

\* C14's case: a module that imports a function, starts it and exports it,
\* validated.
C14_Witness ==
    /\ Validated /\ result = ValidOk
    /\ module.startsec = 0 /\ module.exportsec # <<>> /\ ImportsOfKind("Function") = 1

\* a is before b in the order of byte strings: they differ first at a byte
\* that is smaller in a, or a is a proper prefix of b.
NameLess(a, b) ==
    \E k \in 0..Len(a) :
       /\ k <= Len(b) /\ SubSeq(a, 1, k) = SubSeq(b, 1, k)
       /\ \/ k = Len(a) /\ k < Len(b)
          \/ k < Len(a) /\ k < Len(b) /\ a[k + 1] < b[k + 1]

\* The export names in binary order, and a duplicate among them.
DecodedExportNames == [i \in 1..Len(decoded.exportsec) |-> decoded.exportsec[i].field]

HasDuplicateExportName ==
    \E i, j \in 1..Len(DecodedExportNames) : i # j /\ DecodedExportNames[i] = DecodedExportNames[j]

\* The names in sorted order: the position (from 0) of the second export of
\* the first adjacent equal pair is the number of names that are before the
\* smallest duplicated name, plus one.
SecondOfFirstEqualPair ==
    LET names == DecodedExportNames
        dups == {i \in 1..Len(names) : \E j \in 1..Len(names) : j # i /\ names[j] = names[i]}
        least == CHOOSE i \in dups : \A j \in dups : ~NameLess(names[j], names[i])
    IN  Cardinality({i \in 1..Len(names) : NameLess(names[i], names[least])}) + 1

\* C15: provided the steps before the export section pass, validation fails
\* with DuplicateExportName iff two exports have the same field name,
\* whatever their order in the binary; exportsec_idx is the position, in
\* name-sorted order, of the second export of the first adjacent equal pair;
\* so the export names of a validated module are pairwise distinct.
C15_DuplicateExportName ==
    Validated =>
      /\ StepsPass(5) =>
           /\ result.tag = "DuplicateExportName" <=> HasDuplicateExportName
           /\ HasDuplicateExportName =>
                result = [tag |-> "DuplicateExportName", exportsec_idx |-> SecondOfFirstEqualPair]
      /\ result = ValidOk => ~HasDuplicateExportName

\* C15's case: exports "f", "a", "f" in the binary; sorted, the second "f"
\* is at position 2.
C15_Witness ==
    /\ Validated
    /\ DecodedExportNames = <<<<102>>, <<97>>, <<102>>>>
    /\ result = [tag |-> "DuplicateExportName", exportsec_idx |-> 2]

\* The type indices of the function imports, in their order.
RECURSIVE FunctionImportTypes(_)
FunctionImportTypes(imports) ==
    IF imports = <<>> THEN <<>>
    ELSE IF Head(imports).descriptor.kd = "Function"
    THEN <<Head(imports).descriptor.idx>> \o FunctionImportTypes(Tail(imports))
    ELSE FunctionImportTypes(Tail(imports))

\* The signature of function i: the type of the i-th function import, or
\* past the imports the type the function section names.
SignatureOf(i) ==
    LET imported == FunctionImportTypes(decoded.importsec)
    IN  IF i < Len(imported)
        THEN module.typesec[imported[i + 1] + 1]
        ELSE module.typesec[module.funcsec[(i - Len(imported)) + 1] + 1]

\* C16: a start section with function index i is valid only if i is below
\* the number of functions and the signature of i has no parameters and no
\* results; an index out of range gives IndexOutOfBounds, a signature that
\* is not empty gives InvalidStartFunction(i).
C16_StartFunction ==
    Validated /\ module.startsec # None /\ StepsPass(6) =>
      LET i == module.startsec
      IN  IF i >= CountOfKind(Function)
          THEN result = Error_IndexOutOfBounds(Function, i, CountOfKind(Function))
          ELSE IF SignatureOf(i) # FunctionType(<<>>, <<>>)
          THEN result = [tag |-> "InvalidStartFunction", funcidx |-> i]
          ELSE result.tag # "InvalidStartFunction" /\ StepsPass(7)

\* C16's case: function 1, the one the function section defines behind an
\* imported function, takes a parameter and is the start function.
C16_Witness ==
    /\ Validated /\ module.startsec = 1
    /\ ImportsOfKind("Function") = 1 /\ Len(module.funcsec) = 1
    /\ result = [tag |-> "InvalidStartFunction", funcidx |-> 1]

\* The one memory type of a module of SpecMem.
TheMemType ==
    IF module.memsec # <<>> THEN module.memsec[1] ELSE module.importsec[1].descriptor.limits

\* C17: a MemType is valid iff min <= 65536 and, when max is present,
\* min <= max <= 65536; otherwise validation fails with InvalidMemType of
\* the limits. min = 65536 without max is accepted, 65537 is refused.
C17_MemTypeLimits ==
    Validated =>
      LET l == TheMemType
          valid == l.min <= 65536 /\ (l.max # None => l.min <= l.max /\ l.max <= 65536)
      IN  /\ result = IF valid THEN ValidOk ELSE [tag |-> "InvalidMemType", limits |-> l]
          /\ l = Limits(65536, None) => result = ValidOk
          /\ l = Limits(65537, None) => result.tag = "InvalidMemType"

\* C17's case: a memory of 65537 pages at least, without max, refused.
C17_Witness ==
    /\ Validated /\ module.memsec = <<Limits(65537, None)>>
    /\ result = [tag |-> "InvalidMemType", limits |-> Limits(65537, None)]

\* C18: provided the steps before it pass, the code section is refused with
\* FunctionAndCodeSectionMismatch, naming both lengths, whenever the
\* function section and the code section differ in length (an absent one
\* has length 0); so they have the same length in a validated module.
C18_FunctionCodeParity ==
    Validated =>
      /\ StepsPass(8) /\ Len(module.funcsec) # Len(module.codesec) =>
           result = [tag |-> "FunctionAndCodeSectionMismatch",
                     funcsec_size |-> Len(module.funcsec),
                     codesec_size |-> Len(module.codesec)]
      /\ result.tag = "FunctionAndCodeSectionMismatch" =>
           Len(module.funcsec) # Len(module.codesec)
      /\ result = ValidOk => Len(module.funcsec) = Len(module.codesec)

\* C18's case: two functions declared, one body.
C18_Witness ==
    /\ Validated
    /\ result = [tag |-> "FunctionAndCodeSectionMismatch", funcsec_size |-> 2, codesec_size |-> 1]

\* C19: when the data count is present and every step before passes,
\* validation succeeds iff the data count is the number of data segments,
\* and fails otherwise with DataCountMismatch { expected: the data count,
\* actual: the number of segments }; without a data count nothing is checked.
C19_DataCount ==
    Validated /\ StepsPass(10) =>
      IF module.datacountsec # None /\ module.datacountsec # Len(module.datasec)
      THEN result = [tag |-> "DataCountMismatch",
                     expected |-> module.datacountsec, actual |-> Len(module.datasec)]
      ELSE result = ValidOk

\* C19's case: a data count of 2 and one data segment.
C19_Witness ==
    /\ Validated /\ module.datacountsec = 2 /\ Len(module.datasec) = 1
    /\ result = [tag |-> "DataCountMismatch", expected |-> 2, actual |-> 1]

-----------------------------------------------------------------------------
(* Properties of ExpressionBuilder (SpecExpr) *)

\* The smallest multiple of a that is at least n.
LeastMultipleFrom(n, a) == CHOOSE m \in n..(n + a) : m % a = 0 /\ \A k \in n..(m - 1) : k % a # 0

\* The offset the k-th operand written is to start at.
SlotOffset(k) == LeastMultipleFrom(slots[k].from, slots[k].layout.align)

\* C20: in every sequence of operand writes into an expression buffer, an
\* operand of size s and alignment a (1, 4 or 8) lies at the smallest
\* multiple of a that is at least the length of the buffer before the
\* write; the bytes between that length and the offset are at most 7 and
\* are zero; the length after the write is the offset + s. So every operand
\* slot of a finished Expression starts at a multiple of its alignment.
C20_OperandsAligned ==
    \A k \in 1..Len(slots) :
       LET slot == slots[k]
           at == SlotOffset(k)
       IN  /\ slot.layout.align \in {1, 4, 8}
           /\ slot.from = IF k = 1 THEN 0 ELSE slots[k - 1].to
           /\ at % slot.layout.align = 0
           /\ at - slot.from <= 7
           /\ slot.to = at + slot.layout.size
           /\ Len(data) >= slot.to
           /\ \A i \in (slot.from + 1)..at : data[i] = 0
           /\ \A i \in 1..slot.layout.size : data[at + i] = slot.value[i]

\* C20's case: a finished Expression whose second operand, of alignment 8,
\* was written 7 bytes behind a 1-byte first one, and whose fourth, of
\* alignment 4, was written behind 3 bytes of padding.
C20_Witness ==
    /\ pc = "done" /\ result.tag = "Ok" /\ Len(slots) = 4
    /\ slots[2].from = 1 /\ slots[2].layout = Layout(8, 8) /\ slots[2].value[1] = 255
    /\ slots[4].layout.align = 4 /\ slots[4].from = 17 /\ slots[4].to = 24

-----------------------------------------------------------------------------
(* Properties of transcode_expression (SpecTrans) *)

\* The expression was read to its end and returned.
Transcoded == pc = "done" /\ result.tag = "Ok"

\* The opcodes read so far, in order.
OpcodesRead == SelectSeq(slots, LAMBDA item : item.ty = "Opcode")

\* Among the first k opcodes read, those that open a block and the ends.
OpensIn(k) ==
    Cardinality({i \in 1..k : OpcodesRead[i].value \in {Opcode_Block, Opcode_Loop, Opcode_If}})

EndsIn(k) == Cardinality({i \in 1..k : OpcodesRead[i].value = Opcode_End})

\* C21: the depth counter of transcode_expression is the number of block,
\* loop and if opcodes read (counted once the block type is read) less the
\* number of ends read, else and every other opcode leaving it alone; the
\* expression is returned exactly when an end is read with the counter at 0,
\* the stream standing right behind that end; every opcode read is written,
\* so the output of a returned expression holds one end more than it holds
\* block, loop and if opcodes.
C21_DepthCounter ==
    LET n == Len(OpcodesRead)
    IN  /\ \A i \in 1..n : OpcodesRead[i].written
        /\ \A k \in 0..(n - 1) : EndsIn(k) <= OpensIn(k)
        /\ pc \in {"opcode", "memarg", "zero_1", "zero_2", "bulk", "u32", "u32_zero"}
             => depth = OpensIn(n) - EndsIn(n)
        /\ pc = "blocktype" => depth = (OpensIn(n) - 1) - EndsIn(n)
        /\ EndsIn(n) > OpensIn(n) <=> Transcoded
        /\ Transcoded =>
             /\ EndsIn(n) = OpensIn(n) + 1
             /\ slots[Len(slots)] = OpcodesRead[n]
             /\ OpcodesRead[n].value = Opcode_End
             /\ pos = OpcodesRead[n].to /\ pos = OpcodesRead[n].from + 1

\* C21's case: block, else, end, end, returned with input left behind the
\* last end.
C21_Witness ==
    /\ Transcoded /\ pos < size
    /\ [i \in 1..Len(OpcodesRead) |-> OpcodesRead[i].value]
         = <<Opcode_Block, Opcode_Else, Opcode_End, Opcode_End>>

\* Whether the item after slots[i] is a reserved byte: the one after the
\* opcodes memory.size and memory.grow and after the bulk opcode memory.fill,
\* the two after memory.copy, the one after the data index of memory.init.
ReservedByteFollows(i) ==
    LET item == slots[i]
    IN  \/ item.ty = "Opcode" /\ item.value \in {Opcode_MemorySize, Opcode_MemoryGrow}
        \/ item.ty = "BulkOpcode"
             /\ item.value \in {BulkOpcode_MemoryFill, BulkOpcode_MemoryCopy}
        \/ /\ i > 1 /\ slots[i - 1].ty = "BulkOpcode"
           /\ \/ item.ty = "Byte" /\ slots[i - 1].value = BulkOpcode_MemoryCopy
              \/ item.ty = "U32" /\ slots[i - 1].value = BulkOpcode_MemoryInit

\* The read in progress when transcode_expression failed is a read_zero_byte.
FailedAtReservedByte ==
    /\ pc = "done" /\ result.tag # "Ok"
    /\ context # <<>> /\ context[Len(context)].id = "Byte"

\* C22: the reserved bytes after memory.size, memory.grow and memory.fill (one
\* each), after the data index of memory.init (one) and after memory.copy
\* (two) are read right after what they follow, one byte each, and are not
\* written to the output; no other byte is dropped; a reserved byte that was
\* accepted is 0, and a read of one that fails on a byte fails with
\* InvalidToken of that byte, which is not 0.
C22_ReservedBytesDropped ==
    /\ \A i \in 1..Len(slots) :
          /\ slots[i].written <=> slots[i].ty # "Byte"
          /\ slots[i].ty = "Byte" =>
                /\ slots[i].value = 0
                /\ slots[i].to = slots[i].from + 1
                /\ i > 1 /\ slots[i].from = slots[i - 1].to
          /\ i < Len(slots) => (slots[i + 1].ty = "Byte" <=> ReservedByteFollows(i))
    /\ Len(slots) > 0 /\ ReservedByteFollows(Len(slots)) =>
          \/ pc \in {"zero_1", "zero_2"}
          \/ FailedAtReservedByte /\ context[Len(context)].offset = slots[Len(slots)].to
    /\ FailedAtReservedByte =>
          /\ Len(slots) > 0 /\ ReservedByteFollows(Len(slots))
          /\ \/ result.tag = "Storage"
             \/ result = Error_Invalid("InvalidToken", result.actual) /\ result.actual # 0

C22_Witness ==
    /\ Transcoded
    /\ \E i \in 1..Len(slots) :
          /\ slots[i].ty = "BulkOpcode" /\ slots[i].value = BulkOpcode_MemoryCopy
          /\ slots[i + 1].ty = "Byte" /\ slots[i + 2].ty = "Byte"
          /\ slots[i + 3].ty = "Opcode"

-----------------------------------------------------------------------------
(* Properties of validate_module's order (SpecVal)                          *)

\* The errors each step of validate_module can return, in the order of the
\* steps: imports, functions, tables, memories, globals, exports, start,
\* elements, code, data, data count.
StepErrors ==
    <<{"IndexOutOfBounds", "InvalidTableLimits", "InvalidMemType"},
      {"IndexOutOfBounds"},
      {"InvalidTableLimits"},
      {"InvalidMemType"},
      {},
      {"DuplicateExportName", "IndexOutOfBounds"},
      {"IndexOutOfBounds", "InvalidStartFunction", "Abort"},
      {"IndexOutOfBounds"},
      {"FunctionAndCodeSectionMismatch", "Abort"},
      {"IndexOutOfBounds"},
      {"DataCountMismatch"}>>

\* C23: validate_module checks imports, functions, tables, memories, globals,
\* exports, the start section if present, elements, code, data and the data
\* count in this order and returns the error of the first step that fails,
\* whatever the later steps would have returned: an invalid memory type with
\* a data-count mismatch is InvalidMemType, a duplicate export name with a
\* function/code length mismatch is DuplicateExportName.
C23_FirstFailingStep ==
    Validated =>
       LET rs == validate_steps(module)
           failing == {k \in 1..Len(rs) : rs[k] # ValidOk}
       IN  /\ Len(rs) = Len(StepErrors)
           /\ \A k \in failing : rs[k].tag \in StepErrors[k]
           /\ module.startsec = None => 7 \notin failing
           /\ IF failing = {} THEN result = ValidOk
              ELSE \E k \in failing : result = rs[k] /\ \A j \in failing : k <= j
           /\ /\ \A j \in 1..3 : rs[j] = ValidOk
              /\ \E i \in 1..Len(module.memsec) : module.memsec[i].min > BOUND
              /\ module.datacountsec # None /\ module.datacountsec # Len(module.datasec)
              => result.tag = "InvalidMemType"
           /\ /\ \A j \in 1..5 : rs[j] = ValidOk
              /\ \E i, j \in 1..Len(module.exportsec) :
                    i # j /\ module.exportsec[i].field = module.exportsec[j].field
              /\ Len(module.funcsec) # Len(module.codesec)
              => result.tag = "DuplicateExportName"

C23_Witness ==
    /\ Validated
    /\ \E i \in 1..Len(module.memsec) : module.memsec[i].min > BOUND
    /\ module.datacountsec # None /\ module.datacountsec # Len(module.datasec)
    /\ module.startsec # None /\ module.startsec >= Len(module.funcsec)
    /\ result.tag = "InvalidMemType"

-----------------------------------------------------------------------------
(* Properties of the context stack over transcode_expression (SpecTrans)   *)

ContextFrame(cid, offset) == [id |-> cid, offset |-> offset]

\* The frames of the reads in progress when the read made at `place` fails
\* with the error `tag`: the read entered at offset p, and inside it the read
\* of the field it failed in, entered at an offset from p to q.
FramesInProgress(place, tag, p, q) ==
    CASE place = "opcode" -> {<<ContextFrame("Opcode", p)>>}
      [] place = "blocktype" ->
           IF tag = "InvalidValType" THEN {<<ContextFrame("BlockType", p)>>}
           ELSE {<<ContextFrame("BlockType", p), ContextFrame("I32", p)>>}
      [] place = "memarg" ->
           {<<ContextFrame("MemArg", p), ContextFrame("U32", r)>> : r \in p..q}
      [] place \in {"zero_1", "zero_2"} -> {<<ContextFrame("Byte", p)>>}
      [] place = "bulk" -> {<<ContextFrame("BulkOpcode", p)>>}
      [] place \in {"u32", "u32_zero"} -> {<<ContextFrame("U32", p)>>}

\* One step of transcode_expression, by what it does to the context stack.
ContextBalancedStep ==
    /\ pc = "expr" /\ pc' = "opcode" => context' = Append(context, ContextFrame("Expr", pos))
    /\ pc # "expr" /\ pc' # "done" => context' = context
    /\ pc # "expr" /\ pc' = "done" /\ result'.tag = "Ok" =>
          /\ context # <<>> /\ context[Len(context)] = ContextFrame("Expr", 0)
          /\ context' = ContextStack_pop(context)
    /\ pc # "expr" /\ pc' = "done" /\ result'.tag = "AllocError" => context' = context
    /\ pc # "expr" /\ pc' = "done" /\ result'.tag \notin {"Ok", "AllocError", "Abort"} =>
          /\ result'.tag \in {"Storage", "InvalidToken", "InvalidLeb128", "InvalidValType",
                              "InvalidBulkOpcode"}
          /\ \E frames \in FramesInProgress(pc, result'.tag, pos, pos') :
                context' = context \o frames

\* C24: context frames are balanced. A read that returns successfully leaves
\* the stack as it was before it (each operand read of the loop; the read of
\* the Expression, whose frame is popped at the closing end). A read that
\* fails leaves on the stack, outermost first, the frames of the reads in
\* progress, each with the offset it was entered at, the failing one
\* innermost, and no frame of the reads completed before it.
C24_ContextBalanced == [][ContextBalancedStep]_vars

C24_Witness ==
    /\ pc = "done" /\ result.tag = "Storage" /\ Len(slots) >= 3
    /\ Len(context) = 5
    /\ context[3] = ContextFrame("Expr", 0)
    /\ context[4].id = "MemArg" /\ context[5].id = "U32"
    /\ context[5].offset > context[4].offset /\ pos = context[5].offset

-----------------------------------------------------------------------------
(* Properties of the import grouping (SpecVal)                              *)

ImportKinds == {"Function", "Table", "Memory", "Global"}

\* The imports of a kind, in the order they have in a vector of imports.
ImportsOf(importsec, k) == SelectSeq(importsec, LAMBDA import : import.descriptor.kd = k)

Prepared == pc = "prepared"

\* C25: after prepare_module_for_validation the imports are the decoded
\* imports reordered so that function imports come before table imports,
\* these before memory imports, these before global imports, the imports of
\* one kind keeping their order; and the boundaries Validator::new computes
\* make function_count, table_count, memory_count and global_count the
\* number of imports of the kind plus the length of the kind's section,
\* whichever kinds have no import.
C25_ImportsGrouped ==
    Prepared =>
       /\ Len(module.importsec) = Len(decoded.importsec)
       /\ \A k \in ImportKinds :
             ImportsOf(module.importsec, k) = ImportsOf(decoded.importsec, k)
       /\ module.importsec
            = ImportsOf(decoded.importsec, "Function") \o ImportsOf(decoded.importsec, "Table")
              \o ImportsOf(decoded.importsec, "Memory") \o ImportsOf(decoded.importsec, "Global")
       /\ \A sid \in {Function, Table, Memory, Global} :
             Validator_count(Validator_new(module), sid) = CountOfKind(sid)

\* C25's case: a global import decoded before two function imports of
\* different types, no table and no memory imported, one function defined.
C25_Witness ==
    /\ Prepared
    /\ Len(decoded.importsec) = 3 /\ Len(module.funcsec) = 1
    /\ decoded.importsec[1].descriptor.kd = "Global"
    /\ decoded.importsec[2].descriptor = ImportDescriptor("Function", 1, Limits(0, None))
    /\ decoded.importsec[3].descriptor = ImportDescriptor("Function", 0, Limits(0, None))
    /\ module.importsec = <<decoded.importsec[2], decoded.importsec[3], decoded.importsec[1]>>
    /\ Validator_count(Validator_new(module), Function) = 3
    /\ Validator_count(Validator_new(module), Global) = 1

-----------------------------------------------------------------------------
(* Properties of BlockType::decode (SpecTrans)                              *)

\* The read that failed is that of a block type, after its i32 was read.
FailedAtBlockType ==
    /\ pc = "done" /\ result.tag # "Ok"
    /\ context # <<>> /\ context[Len(context)].id = "BlockType"

\* C26: a block type is decoded from the i32 n read for it, for every n: a
\* type index when n >= 0; when n < 0, by the byte b = n + 128: Empty for
\* 0x40, Result(valtype) for the tag of a value type, and the error
\* InvalidValType(b) for every other negative n.
C26_BlockTypeDecoded ==
    /\ \A i \in 1..Len(slots) :
          slots[i].ty = "BlockType" =>
             \/ slots[i].value >= 0
             \/ slots[i].value + 128 = 64
             \/ slots[i].value + 128 \in ValTypes
    /\ FailedAtBlockType =>
          /\ result = Error_Invalid("InvalidValType", result.actual)
          /\ result.actual \in 0..127 /\ result.actual \notin ValTypes \cup {64}

-----------------------------------------------------------------------------
(* Properties of the in-memory buffer stream (SpecBuf)                      *)

\* C27: over any sequence of read_byte, read_exact and skip_bytes calls on a
\* Buffer the offset never decreases and never exceeds the buffer's length; a
\* call that succeeds has advanced the offset by exactly the bytes asked for
\* (1, buf.len(), count); a call asking for more bytes than remain fails,
\* leaves the offset where it was, and its error is the end of the stream for
\* is_eof; a call asking for no more than remain succeeds.
C27_BufferOffset ==
    /\ 0 <= pos /\ pos <= size
    /\ pc # "new" =>
          /\ offset_start <= pos
          /\ pc = "read_byte" => len = 1
          /\ result.tag = "Ok" => pos = offset_start + len
          /\ len > size - offset_start =>
                /\ result.tag = "Storage" /\ Buffer_is_eof(result.err)
                /\ pos = offset_start
          /\ len <= size - offset_start => result.tag = "Ok"

\* C27's case: read_exact of one byte at the end of a buffer of MaxBufSize
\* bytes, which fails.
C27_Witness ==
    /\ pc = "read_exact" /\ size = MaxBufSize /\ pos = size /\ offset_start = size
    /\ len = 1 /\ result = Error_Storage("MemoryEof")

-----------------------------------------------------------------------------
(* Properties of SectionId's partial order (SpecOrd)                        *)

\* The comparison made was of two non-custom IDs, and it gave their logical
\* order.
LogicalOrderGiven ==
    result.tag = IF Rank(id) < Rank(last_id) THEN "Less"
                 ELSE IF Rank(id) = Rank(last_id) THEN "Equal"
                 ELSE "Greater"

\* C28: partial_cmp gives no ordering when Custom is compared with a
\* non-custom ID, in either direction, so that neither `Custom <= x` nor
\* `x <= Custom` is true; for two non-custom IDs it gives the logical order,
\* in which DataCount is below Code and Data and above Type..Element.
C28_CustomIncomparable ==
    pc = "done" =>
       IF (id = Custom) # (last_id = Custom)
       THEN result.tag \notin {"Less", "Equal", "Greater"}
       ELSE IF id # Custom THEN LogicalOrderGiven
       ELSE result.tag = "Equal"

-----------------------------------------------------------------------------
(* Properties of the validator's lookups (SpecVal)                          *)

\* C29: validate_module on a prepared module returns Ok or an Error and never
\* aborts in a lookup: every import below the function-import boundary
\* exists and is a function import; when the start step looks up the
\* signature of the start function, its index has passed the bounds check
\* and the lookup (import or function section, then type section) is in
\* range; when the code step looks up the type of each function, the type
\* index is in range.
C29_NoAbortingLookup ==
    Validated =>
       LET v == Validator_new(module)
           rs == validate_steps(module)
       IN  /\ result.tag # "Abort"
           /\ \A idx \in 0..(v.import_funcidx_end - 1) :
                 /\ InBounds(idx, module.importsec)
                 /\ module.importsec[idx + 1].descriptor.kd = "Function"
           /\ (/\ \A j \in 1..6 : rs[j] = ValidOk
               /\ module.startsec # None
               /\ validate_idx(v, Function, module.startsec) = ValidOk)
              => function_signature(v, module.startsec).ok
           /\ (/\ \A j \in 1..8 : rs[j] = ValidOk
               /\ Len(module.funcsec) = Len(module.codesec))
              => \A i \in 1..Len(module.funcsec) :
                    InBounds(module.funcsec[i], module.typesec)

\* C29's case: the start function is an imported function that was decoded
\* after a global import, and the module is valid.
C29_Witness ==
    /\ Validated /\ result = ValidOk
    /\ module.startsec = 0
    /\ Len(decoded.importsec) = 2
    /\ decoded.importsec[1].descriptor.kd = "Global"
    /\ decoded.importsec[2].descriptor.kd = "Function"
    /\ Validator_new(module).import_funcidx_end = 1

-----------------------------------------------------------------------------
(* Properties of the nesting of reads (SpecGrammar)                         *)

\* The ContextIds of the frames on the stack, outermost first.
ActiveIds == [i \in 1..Len(context) |-> context[i].id]

\* C30: along every path of the grammar decode_module reads, at most 6
\* context frames are active at a time, one for each read in progress, so no
\* read is refused its frame and decode_module never returns
\* ExcessiveParsingDepth.
C30_DepthWithinSix ==
    /\ Len(context) <= 6
    /\ Len(context) = Len(nest)
    /\ \A i \in 1..Len(nest) : context[i].id = ContextIdOf(nest[i])
    /\ result.tag # "ExcessiveParsingDepth"

\* C30's case: a deepest path, the u32 of the memarg of a load in an
\* expression of an element segment's expression list, 6 frames.
C30_Witness ==
    /\ Len(context) = MAX_DEPTH
    /\ ActiveIds = <<"ElemSec", "Elem", "VecExpr", "Expr", "MemArg", "U32">>

=============================================================================
